---- MODULE Spec2Model ----
(***************************************************************************)
(* ytgui: provisioning of the external tools (yt-dlp.exe, ffmpeg.exe) and  *)
(* the progress tracker that turns yt-dlp output lines into a fraction.    *)
(*                                                                         *)
(*   SpecTracker  downloadProgressTracker (ui package): one tracker, fed   *)
(*                arbitrary lines.                                         *)
(*   Spec         EnsureBinaryWithProgressCtx (downloader package): calls  *)
(*                of ensure against one target path, step by step, with    *)
(*                the network, the file system and the cancellation signal *)
(*                as the environment.                                      *)
(*   SpecFetch    downloadToTemp: one download with its retries.           *)
(*   SpecInstall  replaceFileAtomic: one installation of a staged file.    *)
(*   SpecUpdate   TryUpdateYTDLPWithProgressCtx: one update of yt-dlp.exe. *)
(*   SpecResolve  resolveYTDLPSHA256 / resolveFFmpegSHA256: one resolution *)
(*                of the expected digest.                                  *)
(*   SpecParse    parseSHA256FromList: one manifest text, one file name.   *)
(*   SpecLoops    runYTDLP: the two read loops feeding one tracker.        *)
(***************************************************************************)
EXTENDS Integers, Sequences, FiniteSets, TLC

VARIABLES
  \* ---- downloadProgressTracker (part_002:121-128) ----
  tracker,      \* "nil" (playlist session) or "live"
  totalStages,  \* t.totalStages
  stageIndex,   \* t.stageIndex
  hasStage,     \* t.hasStage
  stageProgress,\* t.stageProgress, in thousandths
  seenDest,     \* t.seenDest (set of destination paths)
  ret,          \* what the last update call returned: [v, status, ok]
  lastShown,    \* fraction of the latest call that returned ok = TRUE, or NoValue
  prevShown,    \* fraction of the call with ok = TRUE before that one, or NoValue
  lastLine,     \* the line the last sequential update call was given, or NoLine
  \* ---- the upstream release (the environment) ----
  release,      \* the payload served at the tool's download URL
  published,    \* the digest the override or the checksum manifests carry for it
  \* ---- the file system ----
  target,       \* content at the tool's path in the app dir, Absent or NoAccess
  sibling,      \* content at target + ".new", or Absent
  temps,        \* the files of the temp dir: temp id -> content
  \* ---- one EnsureBinaryWithProgressCtx call ----
  name,         \* the tool
  pc,           \* where the call is
  data,         \* the embedded bytes handed to the call (<<>>: none)
  ctxCanceled,  \* ctx.Err() is context.Canceled
  expectedSHA,  \* downloadBinaryByName: expectedSHA
  tmp,          \* downloadBinaryByName: tmp, the downloaded file (temp id)
  attempt,      \* downloadToTemp: attempt
  lastErr,      \* downloadToTemp: lastErr / the error an attempt returned
  body,         \* downloadToTempOnce: what is left of resp.Body
  curTmp,       \* downloadToTempOnce: tmpPath (temp id)
  counter,      \* downloadToTempOnce: counter.total
  src,          \* replaceFileAtomic: src (temp id)
  caller,       \* who called replaceFileAtomic: "direct" or "extract"
  faults,       \* failures the environment may still inject into this call's download
  result,       \* what the last call returned: [st, err]
  \* ---- what the call did (history) ----
  calls,        \* number of ensure calls begun
  events,       \* the progress events emitted by this call, in order
  netLog,       \* the HTTP requests issued by this call, in order
  waits,        \* backoff waits begun by this call's downloadToTemp
  preTarget,    \* target when the call began
  replaced,     \* number of replaceFileAtomic invocations of this call
  dlReturn,     \* what this call's downloadToTemp returned: "none", "ok" or "err"
  made,         \* temp ids created by this call (downloadToTempOnce, extractFFmpegFromZip)
  errs,         \* the errors the attempts of this call's downloadToTemp returned
  installing,   \* the content handed to replaceFileAtomic
  canceledIn,   \* where downloadToTemp was when the context was canceled: [at, attempt]
  \* ---- TryUpdateYTDLPWithProgressCtx (cmd_windows.go:189-220) ----
  versionOut,   \* what `yt-dlp.exe --version` prints, or ExecFails
  tagName,      \* tag_name of the latest release in the API response, or ApiFails
  said,         \* what the call told logf, in order
  opened,       \* downloadLatest has opened path + ".new"
  \* ---- resolveYTDLPSHA256 / resolveFFmpegSHA256 (binaries.go:207-257) ----
  envDigest,    \* the digest override of the tool (YTGUI_YTDLP_SHA256 / YTGUI_FFMPEG_SHA256)
  envManifestURL, \* YTGUI_FFMPEG_SHA256_URL is set
  srcURL,       \* ffmpegSourceURL(): [btbn, path]
  served,       \* what each manifest location answers
  candidates,   \* resolveFFmpegSHA256: the candidates not yet tried
  fetched,      \* the manifest locations requested, in order
  resolved,     \* what resolve returned: [sum, err]
  \* ---- parseSHA256FromList (binaries.go:124-180) ----
  text,         \* the manifest, as its entries
  targetName,   \* the file whose digest is looked for
  parsed,       \* what parseSHA256FromList returned: [sum, err]
  \* ---- runYTDLP and its two read loops (part_002:866-883, 231-267) ----
  quality,      \* the quality chosen for the session
  hasSub,       \* subOpt != nil
  playlist,     \* the session is a playlist
  main,         \* where runYTDLP is: "start", "scanning", "waited" (after
                \* wg.Wait), then "complete" or "failed"
  piped,        \* what the subprocess writes to stdout and to stderr, line by line
  pipes,        \* the lines of each pipe not yet scanned
  mu,           \* t.mu: "free" or the loop that holds it
  loop,         \* per read loop: its position and the locals of its update call
  rets,         \* per read loop: what its update calls returned, in order
  progress,     \* the progress bar's value, NoValue before the first SetValue
  issued,       \* the update calls that have taken t.mu so far
  shown,        \* which of them the progress bar's value comes from (0: none)
  \* ---- RunApp: the setup goroutine, the Download button, the sessions ----
  app           \* see AppIdle

trackerVars == <<tracker, totalStages, stageIndex, hasStage, stageProgress,
                 seenDest, ret, lastShown, prevShown, lastLine>>

envVars == <<release, published>>

fsVars == <<target, sibling, temps>>

callVars == <<name, pc, data, ctxCanceled, expectedSHA, tmp, attempt, lastErr,
              body, curTmp, counter, src, caller, faults, result>>

histVars == <<calls, events, netLog, waits, preTarget, replaced, dlReturn, made,
              errs, installing, canceledIn>>

updVars == <<versionOut, tagName, said, opened>>

resolverVars == <<envDigest, envManifestURL, srcURL, served, candidates, fetched,
                  resolved, text, targetName, parsed>>

loopVars == <<quality, hasSub, playlist, main, piped, pipes, mu, loop, rets, progress,
              issued, shown, app>>

vars == <<trackerVars, envVars, fsVars, callVars, histVars, updVars, resolverVars,
          loopVars>>

(***************************************************************************)
(* Fractions.  A float64 fraction of the tracker is kept as its numerator  *)
(* over the denominator totalStages * Scale: stageProgress 0.42 is 420, and *)
(* the returned value (stageIndex + stageProgress) / totalStages is the    *)
(* numerator stageIndex * Scale + stageProgress.                           *)
(***************************************************************************)
Scale == 10 * 100

NoValue == 0 - 1

\* a faulty variant: the first argument, whatever the second is
MaxIsFirst(a, b) == a

Max(a, b) == IF a >= b THEN a ELSE b

Min(a, b) == IF a <= b THEN a ELSE b

(***************************************************************************)
(* Lines of subprocess output.  A line is described by what the tracker's  *)
(* tests can see in it:                                                    *)
(*   dest    the text after the prefix "[download] Destination:" when the  *)
(*           trimmed line starts with it, NoDest otherwise                 *)
(*   pct     the decimal matched by percentRegex, as <<whole, tenths>>,    *)
(*           or NoPct when the pattern does not match                      *)
(*   merger  the line contains "[Merger]"                                  *)
(*   embed   the line contains "[EmbedSubtitle]"                           *)
(***************************************************************************)
NoDest == "<none>"

NoPct == <<-1, 0>>

Dests == {"a.mp4", "a.m4a", "a.vtt"}

\* the decimals a percentage line may carry: 0.0, 42.0, 99.5, 100.0, 150.0
Pcts == {<<0, 0>>, <<42, 0>>, <<99, 5>>, <<100, 0>>, <<150, 0>>}

Lines == [dest : Dests \cup {NoDest}, pct : Pcts \cup {NoPct},
          merger : BOOLEAN, embed : BOOLEAN]

\* no line: what a scanner holds before its first line
NoLine == [dest |-> NoDest, pct |-> NoPct, merger |-> FALSE, embed |-> FALSE]

Qualities == {"Audio Only", "1080p", "Best"}

\* a faulty variant: the matched decimal is not divided by 100
parseProgressPercent(line) ==
  IF line.pct # NoPct
    THEN ((line.pct[1] * 10 + line.pct[2]) * Scale) \div 10
    ELSE -1 * Scale

\* parseProgress: the matched decimal divided by 100, or -1 (no match)
parseProgress(line) ==
  IF line.pct # NoPct
    THEN ((line.pct[1] * 10 + line.pct[2]) * Scale) \div 1000
    ELSE -1 * Scale

\* compactStatus: "Downloading <pct>%", or "" when the pattern does not match
compactStatus(line) ==
  IF line.pct = NoPct THEN <<"">> ELSE <<"Downloading %", line.pct>>

\* a faulty variant: a subtitle track adds no stage
StagesForVideoOnly(q, sub) == IF q # "Audio Only" THEN 2 ELSE 1

\* newDownloadProgressTracker: the number of stages of a session
StagesFor(q, sub) ==
  LET s1 == IF q # "Audio Only" THEN 2 ELSE 1
      s2 == IF sub THEN s1 + 1 ELSE s1
  IN  IF s2 < 1 THEN 1 ELSE s2

\* a faulty variant: the empty result reports an update
NoRetUpdated == [v |-> 0, status |-> <<"">>, ok |-> TRUE]

NoRet == [v |-> 0, status |-> <<"">>, ok |-> FALSE]

TrackerStart ==
  \E q \in Qualities, sub \in BOOLEAN, pl \in BOOLEAN :
    /\ tracker = IF pl THEN "nil" ELSE "live"
    /\ totalStages = IF pl THEN 0 ELSE StagesFor(q, sub)
    /\ stageIndex = 0
    /\ hasStage = FALSE
    /\ stageProgress = 0
    /\ seenDest = {}
    /\ ret = NoRet
    /\ lastShown = NoValue
    /\ prevShown = NoValue
    /\ lastLine = NoLine

\* the bookkeeping of the returned values, common to every branch of update
Returned(line, r) ==
  /\ UNCHANGED <<envVars, fsVars, callVars, histVars, updVars, resolverVars, loopVars>>
  /\ ret' = r
  /\ lastShown' = IF r.ok THEN r.v ELSE lastShown
  /\ prevShown' = IF r.ok THEN lastShown ELSE prevShown
  /\ lastLine' = line

\* update on a nil tracker (part_002:151-153)
UpdateNil(line) ==
  /\ tracker = "nil"
  /\ Returned(line, NoRet)
  /\ UNCHANGED <<tracker, totalStages, stageIndex, hasStage, stageProgress, seenDest>>

\* a faulty variant: a new destination always moves to the next stage
UpdateDestUncapped(line) ==
  /\ tracker = "live"
  /\ line.dest # NoDest
  /\ LET fresh == line.dest \notin seenDest
         idx == IF ~fresh THEN stageIndex
                ELSE IF ~hasStage THEN 0
                ELSE stageIndex + 1
     IN  /\ seenDest' = seenDest \cup {line.dest}
         /\ hasStage' = (hasStage \/ fresh)
         /\ stageIndex' = idx
         /\ stageProgress' = IF fresh THEN 0 ELSE stageProgress
         /\ Returned(line, [v |-> idx * Scale,
                            status |-> <<"Downloading (i/n)...", idx + 1, totalStages>>,
                            ok |-> TRUE])
  /\ UNCHANGED <<tracker, totalStages>>

\* update, destination branch (part_002:160-175)
UpdateDest(line) ==
  /\ tracker = "live"
  /\ line.dest # NoDest
  /\ LET fresh == line.dest \notin seenDest
         idx == IF ~fresh THEN stageIndex
                ELSE IF ~hasStage THEN 0
                ELSE IF stageIndex < totalStages - 1 THEN stageIndex + 1
                ELSE stageIndex
         prog == IF ~fresh THEN stageProgress
                 ELSE IF ~hasStage THEN 0
                 ELSE IF stageIndex < totalStages - 1 THEN 0
                 ELSE stageProgress
     IN  /\ seenDest' = seenDest \cup {line.dest}
         /\ hasStage' = (hasStage \/ fresh)
         /\ stageIndex' = idx
         /\ stageProgress' = prog
         /\ Returned(line, [v |-> idx * Scale,
                      status |-> <<"Downloading (i/n)...", idx + 1, totalStages>>,
                      ok |-> TRUE])
  /\ UNCHANGED <<tracker, totalStages>>

\* update, percentage branch (part_002:177-184)
UpdatePercent(line) ==
  /\ tracker = "live"
  /\ line.dest = NoDest
  /\ parseProgress(line) >= 0 /\ hasStage
  /\ LET p == Max(parseProgress(line), stageProgress)
     IN  /\ stageProgress' = p
         /\ Returned(line, [v |-> stageIndex * Scale + p,
                      status |-> compactStatus(line), ok |-> TRUE])
  /\ UNCHANGED <<tracker, totalStages, stageIndex, hasStage, seenDest>>

\* a faulty variant: the merge marker is reported at the current stage's place
UpdateMergerAtStage(line) ==
  /\ tracker = "live"
  /\ line.dest = NoDest
  /\ ~(parseProgress(line) >= 0 /\ hasStage)
  /\ line.merger
  /\ Returned(line, [v |-> stageIndex * Scale + stageProgress,
                     status |-> <<"Merging formats...">>, ok |-> TRUE])
  /\ UNCHANGED <<tracker, totalStages, stageIndex, hasStage, stageProgress, seenDest>>

\* update, "[Merger]" branch (part_002:186-189)
UpdateMerger(line) ==
  /\ tracker = "live"
  /\ line.dest = NoDest
  /\ ~(parseProgress(line) >= 0 /\ hasStage)
  /\ line.merger
  /\ Returned(line, [v |-> (totalStages * Scale) - (Scale \div 10),
               status |-> <<"Merging formats...">>, ok |-> TRUE])
  /\ UNCHANGED <<tracker, totalStages, stageIndex, hasStage, stageProgress, seenDest>>

\* update, "[EmbedSubtitle]" branch (part_002:190-193)
UpdateEmbed(line) ==
  /\ tracker = "live"
  /\ line.dest = NoDest
  /\ ~(parseProgress(line) >= 0 /\ hasStage)
  /\ ~line.merger
  /\ line.embed
  /\ Returned(line, [v |-> (totalStages * Scale) - (Scale \div 20),
               status |-> <<"Embedding subtitles...">>, ok |-> TRUE])
  /\ UNCHANGED <<tracker, totalStages, stageIndex, hasStage, stageProgress, seenDest>>

\* update, any other line (part_002:195)
UpdateOther(line) ==
  /\ tracker = "live"
  /\ line.dest = NoDest
  /\ ~(parseProgress(line) >= 0 /\ hasStage)
  /\ ~line.merger
  /\ ~line.embed
  /\ Returned(line, NoRet)
  /\ UNCHANGED <<tracker, totalStages, stageIndex, hasStage, stageProgress, seenDest>>

NextTracker ==
  \/ \E line \in Lines : UpdateNil(line)
  \/ \E line \in Lines : UpdateDest(line)
  \/ \E line \in Lines : UpdatePercent(line)
  \/ \E line \in Lines : UpdateMerger(line)
  \/ \E line \in Lines : UpdateEmbed(line)
  \/ \E line \in Lines : UpdateOther(line)

(***************************************************************************)
(* Files.  A file's content is a sequence of bytes; Absent marks a path    *)
(* that does not exist and NoAccess a path os.Stat cannot examine.         *)
(***************************************************************************)
Absent == <<"<absent>">>

NoAccess == <<"<noaccess>">>

\* the file installed by an earlier run
ExeOld == <<"M", "Z", "o", "l", "d">>

\* a complete Windows executable served by the network
ExeNew == <<"M", "Z", "n", "e", "w">>

\* a zip archive holding ffmpeg.exe under bin/
ZipBin == <<"P", "K", "03", "04", "zb">>

\* a zip archive with no ffmpeg.exe entry
ZipNone == <<"P", "K", "03", "04", "zn">>

\* a zip archive whose ffmpeg.exe entry is not an executable
ZipFake == <<"P", "K", "03", "04", "zf">>

\* a payload that is neither (an HTML error page)
Junk == <<"<", "h", "t", "m", "l">>

\* a one-byte payload
Tiny == <<"M">>

Payloads == {ExeNew, ZipBin, ZipNone, ZipFake, Junk, Tiny}

\* the embedded bytes a build may carry
Embedded == {<<>>, ExeNew}

Tools == {"yt-dlp.exe", "ffmpeg.exe", "ffprobe.exe"}

Take(s, n) == SubSeq(s, 1, Min(n, Len(s)))

Drop(s, n) == SubSeq(s, Min(n, Len(s)) + 1, Len(s))

\* the proper prefixes of a content: what a write that fails part-way leaves
ProperPrefixes(s) == {Take(s, n) : n \in 0..(Len(s) - 1)}

\* computeFileSHA256: the digest of a content (collision-free)
computeFileSHA256(content) == <<"sha256">> \o content

\* a digest that is the digest of no payload
StrayDigest == computeFileSHA256(<<"?">>)

Digests == {computeFileSHA256(p) : p \in Payloads} \cup {StrayDigest}

\* a faulty variant: the comparison is skipped
verifyFileSHA256Skipped(content, expected) == TRUE

\* verifyFileSHA256: TRUE when the file's digest is the expected one
verifyFileSHA256(content, expected) == computeFileSHA256(content) = expected

\* a faulty variant: every file passes for an executable
looksLikeWindowsExeAny(content) == TRUE

\* looksLikeWindowsExe: the first two bytes are "MZ"
looksLikeWindowsExe(content) ==
  Len(Take(content, 2)) = 2 /\ Take(content, 2) = <<"M", "Z">>

\* a faulty variant: the name in the source URL decides
looksLikeZipByName(content) ==
  LET n == Len(srcURL.path)
  IN  n >= 4 /\ SubSeq(srcURL.path, n - 3, n) = <<".", "z", "i", "p">>

\* looksLikeZip: the first four bytes are "PK\x03\x04"
looksLikeZip(content) ==
  Len(Take(content, 4)) = 4 /\ Take(content, 4) = <<"P", "K", "03", "04">>

(***************************************************************************)
(* Archives.  zip.OpenReader yields the entries of an archive; an entry    *)
(* name is kept as its sequence of path segments (filepath.ToSlash has     *)
(* been applied), so "/ffmpeg.exe" is a suffix of the name exactly when    *)
(* the name has two segments or more and the last one is ffmpeg.exe.       *)
(***************************************************************************)
ZipEntries(content) ==
  CASE content = ZipBin ->
         << [Name |-> <<"ffmpeg-7.0", "doc", "FFMPEG.EXE">>, bytes |-> Junk],
            [Name |-> <<"ffmpeg-7.0", "bin", "ffmpeg.exe">>, bytes |-> ExeNew],
            [Name |-> <<"ffmpeg-7.0", "bin", "ffprobe.exe">>, bytes |-> ExeOld] >>
    [] content = ZipNone ->
         << [Name |-> <<"ffmpeg-7.0", "README.txt">>, bytes |-> Junk],
            [Name |-> <<"ffmpeg.exe">>, bytes |-> ExeNew] >>
    [] content = ZipFake ->
         << [Name |-> <<"ffmpeg-7.0", "ffmpeg.exe">>, bytes |-> Junk] >>
    [] OTHER -> <<>>

\* zip.OpenReader succeeds on the archives above
IsArchive(content) == content \in {ZipBin, ZipNone, ZipFake}

\* strings.ToLower on the segments that occur
ToLower(seg) ==
  CASE seg = "FFMPEG.EXE" -> "ffmpeg.exe"
    [] seg = "README.txt" -> "readme.txt"
    [] OTHER -> seg

\* strings.HasSuffix(name, "/ffmpeg.exe")
HasFFmpegSuffix(nm) ==
  Len(nm) >= 2 /\ ToLower(nm[Len(nm)]) = "ffmpeg.exe"

\* strings.Contains(name, "/bin/ffmpeg.exe")
HasBinFFmpeg(nm) ==
  \E i \in 2..(Len(nm) - 1) :
    ToLower(nm[i]) = "bin" /\ ToLower(nm[i + 1]) = "ffmpeg.exe"

\* extractFFmpegFromZip, the selection loop: index of the selected entry, 0 for nil
RECURSIVE SelectFrom(_, _, _)
SelectFrom(files, i, selected) ==
  IF i > Len(files) THEN selected
  ELSE IF ~HasFFmpegSuffix(files[i].Name) THEN SelectFrom(files, i + 1, selected)
  ELSE IF selected = 0 \/ HasBinFFmpeg(files[i].Name) THEN SelectFrom(files, i + 1, i)
  ELSE SelectFrom(files, i + 1, selected)

SelectEntry(files) == SelectFrom(files, 1, 0)

(***************************************************************************)
(* Errors.  An error is known by its class:                                *)
(*   "timeout"    context.DeadlineExceeded, or a net.Error with Timeout()  *)
(*   "temporary"  a net.Error with Temporary()                             *)
(*   "canceled"   context.Canceled                                         *)
(*   "status"     a response whose status is not 200                       *)
(*   "io"         any other failure (connection refused, disk, ...)        *)
(*   and the errors the provisioning steps make themselves.                *)
(***************************************************************************)
NetErrors == {"timeout", "temporary", "io"}

maxDownloadAttempts == 3

\* a faulty variant: timeouts are not retried
shouldRetryDownloadTemporaryOnly(err) == err = "temporary"

\* a faulty variant: every failure is retried
shouldRetryDownloadAny(err) == TRUE

\* shouldRetryDownload
shouldRetryDownload(err) == err \in {"timeout", "temporary"}

\* the bytes one Read of the response body delivers
ChunkSize == 3

Ok == [st |-> "ok", err |-> "nil"]

Failed(e) == [st |-> "err", err |-> e]

NoResult == [st |-> "none", err |-> "nil"]

NotCanceled == [at |-> "none", attempt |-> 0]

\* a faulty variant: the event does not carry the byte count
EmitNoBytes(log, phase, n) == Append(log, [Phase |-> phase, DownloadedBytes |-> 0])

\* emitDownloadProgress: the event log with one more event
Emit(log, phase, n) == Append(log, [Phase |-> phase, DownloadedBytes |-> n])

(***************************************************************************)
(* Checksum resolution (resolveYTDLPSHA256, resolveFFmpegSHA256).  What    *)
(* the environment decides is a scenario:                                  *)
(*   ovr     the digest override: "unset", "bad" (malformed) or "good"     *)
(*   n       the number of manifest candidates (1 for yt-dlp; for ffmpeg   *)
(*           2, plus 1 with a manifest-URL override, plus 1 for a BtbN     *)
(*           source URL)                                                   *)
(*   cands   per candidate: "fetch_err", "parse_err" or "ok"               *)
(* The outcome is [sha, err, reqs]: the digest, the error class ("nil"     *)
(* for none) and the number of manifest requests issued.                   *)
(***************************************************************************)
CandOutcomes == {"fetch_err", "parse_err", "ok"}

MaxCandidates == 4

Scenarios(tool) ==
  [ovr : {"unset", "bad", "good"},
   n : IF tool = "yt-dlp.exe" THEN {1} ELSE 2..MaxCandidates,
   cands : [1..MaxCandidates -> CandOutcomes]]

\* the candidate loop: index of the first candidate that yields a digest, 0 for none
RECURSIVE FirstGood(_, _, _)
FirstGood(cands, i, n) ==
  IF i > n THEN 0
  ELSE IF cands[i] = "ok" THEN i
  ELSE FirstGood(cands, i + 1, n)

\* resolveYTDLPSHA256 / resolveFFmpegSHA256 under a scenario
Resolve(sc, sha, canceled) ==
  LET cands == [i \in 1..MaxCandidates |->
                  IF canceled THEN "fetch_err" ELSE sc.cands[i]]
      hit == FirstGood(cands, 1, sc.n)
  IN  IF sc.ovr = "good" THEN [sha |-> sha, err |-> "nil", reqs |-> 0]
      ELSE IF sc.ovr = "bad" THEN [sha |-> sha, err |-> "digest", reqs |-> 0]
      ELSE IF hit = 0 THEN [sha |-> sha, err |-> "checksum", reqs |-> sc.n]
      ELSE [sha |-> sha, err |-> "nil", reqs |-> hit]

\* the request log: the kinds of the requests issued, in order, a run of
\* requests of one kind written once
Logged(log, kind, n) ==
  IF n = 0 \/ (log # <<>> /\ log[Len(log)] = kind) THEN log ELSE Append(log, kind)

(***************************************************************************)
(* The temp dir.                                                           *)
(***************************************************************************)
NoTemps == [i \in {} |-> <<>>]

Without(tmps, id) == [i \in (DOMAIN tmps) \ {id} |-> tmps[i]]

With(tmps, id, content) ==
  [i \in (DOMAIN tmps) \cup {id} |-> IF i = id THEN content ELSE tmps[i]]

\* os.CreateTemp: a name no file of the temp dir has
FreshTemp(tmps) ==
  CHOOSE i \in 1..(Cardinality(DOMAIN tmps) + 1) :
    /\ i \notin DOMAIN tmps
    /\ \A j \in 1..(i - 1) : j \in DOMAIN tmps

\* a faulty variant: the deferred removal is missing
CleanupNever(tmps, id, success) == tmps

\* downloadToTempOnce, the deferred function (binaries.go:335-341)
Cleanup(tmps, id, success) == IF success THEN tmps ELSE Without(tmps, id)

\* a faulty variant: the file is copied over dst and the copy is cut short
RenameOverTorn(old, new) == Take(new, 2)

\* os.Rename(tmp, dst): what dst holds afterwards
RenameOver(old, new) == new

\* a faulty variant: the embedded bytes are written without looking at the target
EnsureBranchDataFirst(tgt, d) ==
  IF Len(d) > 0 THEN "write"
  ELSE IF tgt = Absent THEN "download"
  ELSE IF tgt = NoAccess THEN "access"
  ELSE "return"

\* EnsureBinaryWithProgressCtx, the branch taken (binaries.go:565-577)
EnsureBranch(tgt, d) ==
  IF tgt = Absent THEN (IF Len(d) > 0 THEN "write" ELSE "download")
  ELSE IF tgt = NoAccess THEN "access"
  ELSE "return"

\* downloadToTemp after a failed attempt (binaries.go:391-397)
AfterFailure(att, err, canceled) ==
  IF canceled THEN "cancel"
  ELSE IF att = maxDownloadAttempts \/ ~shouldRetryDownload(err) THEN "stop"
  ELSE "retry"

\* number of ensure calls in one behaviour
MaxCalls == 2

\* failures the environment injects into the download of one ensure call
MaxFaults == 1

\* failures the environment injects into a download examined on its own
MaxFetchFaults == 3

FetchPcs == {"dl_get", "dl_copy", "dl_failed", "dl_backoff"}

InstallPcs == {"r_remove", "r_rename", "r_chmod", "r_commit"}

(***************************************************************************)
(* Strings.  A string is kept as the sequence of its characters; "LF" is   *)
(* the newline and "TAB" the tab.                                          *)
(***************************************************************************)
Space == {" ", "LF", "TAB", "CR"}

RECURSIVE TrimLeftSpace(_)
TrimLeftSpace(s) ==
  IF s # <<>> /\ Head(s) \in Space THEN TrimLeftSpace(Tail(s)) ELSE s

RECURSIVE TrimRightSpace(_)
TrimRightSpace(s) ==
  IF s # <<>> /\ s[Len(s)] \in Space
    THEN TrimRightSpace(SubSeq(s, 1, Len(s) - 1))
    ELSE s

\* strings.TrimSpace
TrimSpace(s) == TrimRightSpace(TrimLeftSpace(s))

\* strings.HasPrefix
HasPrefix(s, prefix) ==
  Len(s) >= Len(prefix) /\ SubSeq(s, 1, Len(prefix)) = prefix

\* strings.TrimPrefix: the prefix is removed once
TrimPrefix(s, prefix) ==
  IF HasPrefix(s, prefix) THEN SubSeq(s, Len(prefix) + 1, Len(s)) ELSE s

(***************************************************************************)
(* Versions.  The installed binary prints its version followed by a        *)
(* newline; the release API gives the tag of the latest release.           *)
(***************************************************************************)
ExecFails == <<"<exec fails>">>

ApiFails == <<"<api fails>">>

VersionOutputs ==
  { ExecFails, <<>>, <<"2", "4", "LF">>, <<"v", "2", "4", "LF">>,
    <<"2", "5", "CR", "LF">>, <<"v", "v", "2", "4">> }

TagNames ==
  { ApiFails, <<" ">>, <<"v">>, <<"2", "4">>, <<"v", "2", "4">>, <<" ", "v", "2", "5">>,
    <<"v", " ", "2", "4">> }

\* getLocalVersion: [v, err]
getLocalVersion(out) ==
  IF out = ExecFails THEN [v |-> <<>>, err |-> "exec"]
  ELSE [v |-> TrimSpace(out), err |-> "nil"]

\* getLatestVersion on a response that was received and decoded: [v, err]
getLatestVersion(tag) ==
  IF TrimSpace(tag) = <<>> THEN [v |-> <<>>, err |-> "no_tag"]
  ELSE [v |-> TrimSpace(tag), err |-> "nil"]

\* a faulty variant: the versions are compared as they are
needsUpdateVerbatim(local, latest) ==
  local # <<>> /\ latest # <<>> /\ local # latest

\* needsUpdate
needsUpdate(local, latest) ==
  LET l == TrimPrefix(TrimSpace(local), <<"v">>)
      r == TrimPrefix(TrimSpace(latest), <<"v">>)
  IN  l # <<>> /\ r # <<>> /\ l # r

\* a faulty variant: the digest of the stream is not compared
SameDigestAlways(actual, expected) == TRUE

\* downloadLatest: actualSHA != expectedSHA
SameDigest(actual, expected) == actual = expected

\* the sibling a crashed run left behind
StaleSibling == Take(ExeOld, 3)

UpdateIdle ==
  /\ versionOut = ExecFails
  /\ tagName = ApiFails
  /\ said = <<>>
  /\ opened = FALSE

(***************************************************************************)
(* Digests as text and checksum manifests (binaries.go:79-180).            *)
(***************************************************************************)
\* the {64} of sha256LineRE
DigestLen == 64

LowerLetters ==
  <<"a", "b", "c", "d", "e", "f", "g", "h", "i", "j", "k", "l", "m",
    "n", "o", "p", "q", "r", "s", "t", "u", "v", "w", "x", "y", "z">>

UpperLetters ==
  <<"A", "B", "C", "D", "E", "F", "G", "H", "I", "J", "K", "L", "M",
    "N", "O", "P", "Q", "R", "S", "T", "U", "V", "W", "X", "Y", "Z">>

Digits == {"0", "1", "2", "3", "4", "5", "6", "7", "8", "9"}

\* the characters [a-f0-9]
HexDigits == Digits \cup {"a", "b", "c", "d", "e", "f"}

\* the characters \b tells from the rest
WordChars ==
  Digits \cup {"_"} \cup {LowerLetters[i] : i \in DOMAIN LowerLetters}
         \cup {UpperLetters[i] : i \in DOMAIN UpperLetters}

LowerChar(c) ==
  IF \E i \in DOMAIN UpperLetters : UpperLetters[i] = c
    THEN LowerLetters[CHOOSE i \in DOMAIN UpperLetters : UpperLetters[i] = c]
    ELSE c

\* strings.ToLower
Lower(s) == [i \in DOMAIN s |-> LowerChar(s[i])]

\* sha256LineRE matches s at position i: 64 hex digits of either case between
\* two word boundaries
DigestAt(s, i) ==
  /\ i + DigestLen - 1 <= Len(s)
  /\ \A j \in i..(i + DigestLen - 1) : LowerChar(s[j]) \in HexDigits
  /\ (i = 1 \/ s[i - 1] \notin WordChars)
  /\ (i + DigestLen - 1 = Len(s) \/ s[i + DigestLen] \notin WordChars)

\* sha256LineRE.MatchString
MatchesDigest(s) == \E i \in 1..Len(s) : DigestAt(s, i)

\* sha256LineRE.FindAllString(s, -1)[0], or <<>> when there is no match
FirstMatch(s) ==
  IF ~MatchesDigest(s) THEN <<>>
  ELSE LET m == CHOOSE i \in 1..Len(s) :
                  DigestAt(s, i) /\ \A k \in 1..(i - 1) : ~DigestAt(s, k)
       IN  SubSeq(s, m, m + DigestLen - 1)

\* a faulty variant: the length is not looked at
normalizeSHA256AnyLength(v) ==
  LET sum == TrimSpace(Lower(v))
  IN  IF ~MatchesDigest(sum) THEN [sum |-> <<>>, err |-> "digest"]
      ELSE [sum |-> sum, err |-> "nil"]

\* normalizeSHA256: [sum, err]
normalizeSHA256(v) ==
  LET sum == TrimSpace(Lower(v))
  IN  IF ~MatchesDigest(sum) \/ Len(sum) # DigestLen
        THEN [sum |-> <<>>, err |-> "digest"]
        ELSE [sum |-> sum, err |-> "nil"]

\* strings.Index, 1-based; 0 when sub does not occur
IndexOf(s, sub) ==
  LET at(i) == i + Len(sub) - 1 <= Len(s) /\ SubSeq(s, i, i + Len(sub) - 1) = sub
  IN  IF \E i \in 1..Len(s) : at(i)
        THEN CHOOSE i \in 1..Len(s) : at(i) /\ \A k \in 1..(i - 1) : ~at(k)
        ELSE 0

\* strings.Contains
Contains(s, sub) == sub = <<>> \/ IndexOf(s, sub) # 0

\* strings.Fields: the maximal runs of characters that are not white space
RECURSIVE Fields(_)
Fields(s) ==
  LET t == TrimLeftSpace(s)
  IN  IF t = <<>> THEN <<>>
      ELSE LET n == IF \E i \in 1..Len(t) : t[i] \in Space
                      THEN (CHOOSE i \in 1..Len(t) :
                              t[i] \in Space /\ \A k \in 1..(i - 1) : t[k] \notin Space) - 1
                      ELSE Len(t)
           IN  <<SubSeq(t, 1, n)>> \o Fields(SubSeq(t, n + 1, Len(t)))

\* strings.TrimLeft(s, "*")
RECURSIVE TrimLeftStar(_)
TrimLeftStar(s) ==
  IF s # <<>> /\ Head(s) = "*" THEN TrimLeftStar(Tail(s)) ELSE s

RECURSIVE TrimRightSlash(_)
TrimRightSlash(s) ==
  IF s # <<>> /\ s[Len(s)] = "/"
    THEN TrimRightSlash(SubSeq(s, 1, Len(s) - 1))
    ELSE s

\* path.Base
Base(p) ==
  IF p = <<>> THEN <<".">>
  ELSE LET t == TrimRightSlash(p)
       IN  IF t = <<>> THEN <<"/">>
           ELSE IF \E i \in 1..Len(t) : t[i] = "/"
             THEN LET k == CHOOSE i \in 1..Len(t) :
                             t[i] = "/" /\ \A j \in (i + 1)..Len(t) : t[j] # "/"
                  IN  SubSeq(t, k + 1, Len(t))
             ELSE t

\* parseSHA256FromList, the three tests a line with a digest goes through
\* (binaries.go:151-172): TRUE when the line's digest is returned
LineNames(line, targetBase) ==
  \/ Contains(line, targetBase)
  \/ /\ Contains(line, <<"S", "H", "A", "2", "5", "6", " ", "(">>)
     /\ LET open == IndexOf(line, <<"(">>)
            close == IndexOf(line, <<")">>)
        IN  /\ open >= 1
            /\ close > open
            /\ Lower(Base(TrimSpace(SubSeq(line, open + 1, close - 1)))) = targetBase
  \/ LET fields == Fields(line)
     IN  /\ Len(fields) >= 2
         /\ Lower(Base(TrimSpace(TrimLeftStar(fields[Len(fields)])))) = targetBase

\* parseSHA256FromList, the loop over the lines from line i on
RECURSIVE ParseFrom(_, _, _, _, _)
ParseFrom(lines, i, targetBase, firstDigest, nonEmptyLines) ==
  IF i > Len(lines)
    THEN IF firstDigest # <<>> /\ nonEmptyLines = 1
           THEN [sum |-> firstDigest, err |-> "nil"]
           ELSE [sum |-> <<>>, err |-> "parse"]
    ELSE LET line == TrimSpace(lines[i])
             digest == Lower(FirstMatch(line))
             first == IF firstDigest = <<>> THEN digest ELSE firstDigest
         IN  IF line = <<>>
               THEN ParseFrom(lines, i + 1, targetBase, firstDigest, nonEmptyLines)
               ELSE IF ~MatchesDigest(line)
                 THEN ParseFrom(lines, i + 1, targetBase, firstDigest, nonEmptyLines + 1)
                 ELSE IF LineNames(line, targetBase)
                   THEN [sum |-> digest, err |-> "nil"]
                   ELSE ParseFrom(lines, i + 1, targetBase, first, nonEmptyLines + 1)

\* parseSHA256FromList(text, forName), text given as its lines
\* (strings.Split(text, "\n")): [sum, err]
parseSHA256FromList(lines, forName) ==
  LET targetBase == Lower(Base(TrimSpace(forName)))
  IN  IF targetBase = <<>> THEN [sum |-> <<>>, err |-> "parse"]
      ELSE ParseFrom(lines, 1, targetBase, <<>>, 0)

(***************************************************************************)
(* Manifests.  An entry of a manifest is [shape, digest, file]; Render is  *)
(* the line of text it stands for.                                         *)
(***************************************************************************)
Hex64(c) == [i \in 1..DigestLen |-> c]

YtDlpExe == <<"y", "t", "-", "d", "l", "p", ".", "e", "x", "e">>

FileNames ==
  { YtDlpExe,
    <<"Y", "T", "-", "D", "L", "P", ".", "E", "X", "E">>,
    <<"d", "/">> \o YtDlpExe,
    YtDlpExe \o <<".", "s", "i", "g">>,
    <<"f", "o", "o", ".", "e", "x", "e">> }

Render(e) ==
  CASE e.shape = "two_space" -> e.digest \o <<" ", " ">> \o e.file
    [] e.shape = "star" -> e.digest \o <<" ", "*">> \o e.file
    [] e.shape = "bsd" ->
         <<"S", "H", "A", "2", "5", "6", " ", "(">> \o e.file \o <<")", " ", "=", " ">>
           \o e.digest
    [] e.shape = "bare" -> e.digest \o <<"CR">>
    [] e.shape = "comment" -> <<"#", " ">> \o e.file
    [] OTHER -> <<>>

RenderAll(entries) == [i \in DOMAIN entries |-> Render(entries[i])]

Entries ==
  { [shape |-> "two_space", digest |-> Hex64("a"), file |-> YtDlpExe],
    [shape |-> "star", digest |-> Hex64("B"),
     file |-> <<"Y", "T", "-", "D", "L", "P", ".", "E", "X", "E">>],
    [shape |-> "bsd", digest |-> Hex64("c"), file |-> <<"d", "/">> \o YtDlpExe],
    [shape |-> "two_space", digest |-> Hex64("d"),
     file |-> YtDlpExe \o <<".", "s", "i", "g">>],
    [shape |-> "star", digest |-> Hex64("e"), file |-> <<"f", "o", "o", ".", "e", "x", "e">>],
    [shape |-> "bsd", digest |-> Hex64("f"), file |-> <<"f", "o", "o", ".", "e", "x", "e">>],
    [shape |-> "bare", digest |-> Hex64("0"), file |-> <<>>],
    [shape |-> "comment", digest |-> <<>>, file |-> <<"s", "u", "m", "s">>],
    [shape |-> "empty", digest |-> <<>>, file |-> <<>>] }

\* lines of a manifest in one behaviour
MaxLines == 3

Texts == UNION {[1..n -> Entries] : n \in 1..MaxLines}

TargetNames == { YtDlpExe, <<" ", "x", "/", "Y", "t", "-", "D", "l", "p", ".", "e", "x", "e">> }

NoResolved == [sum |-> <<>>, err |-> "none"]

(***************************************************************************)
(* The checksum resolver's environment.                                    *)
(***************************************************************************)
Overrides ==
  { <<>>, <<" ">>,
    Hex64("a"),
    <<" ">> \o Hex64("A") \o <<"LF">>,
    Take(Hex64("a"), DigestLen - 1),
    Take(Hex64("a"), DigestLen - 1) \o <<"g">>,
    Hex64("a") \o <<"a">>,
    Hex64("a") \o <<" ", "x">> }

GyanURL == [btbn |-> FALSE, path |-> <<"/", "b", "/", "f", "f", ".", "z", "i", "p">>]

BtbnURL == [btbn |-> TRUE, path |-> <<"/", "d", "/", "w", "i", "n", ".", "z", "i", "p">>]

\* a source URL set through YTGUI_FFMPEG_URL whose name ends in .exe
ExeURL == [btbn |-> FALSE, path |-> <<"/", "f", "/", "f", "f", ".", "e", "x", "e">>]

\* ffmpegSourceURL(): the default or the YTGUI_FFMPEG_URL override
SourceURLs == {GyanURL, BtbnURL, ExeURL}

\* checksumTargetName
checksumTargetName(u) == Base(u.path)

\* resolveFFmpegSHA256: the candidates, in order (binaries.go:228-235)
CandidatesFor(manifestURL, u) ==
  (IF manifestURL THEN <<"override">> ELSE <<>>)
    \o (IF u.btbn THEN <<"btbn_checksums">> ELSE <<>>)
    \o <<"src.sha256", "src.sha256.txt">>

FFmpegLocations == {"override", "btbn_checksums", "src.sha256", "src.sha256.txt"}

Answers == {"fail", "named", "single", "unnamed"}

\* the digest a manifest location publishes, as it is written there
DigestOf(loc) ==
  CASE loc = "override" -> Hex64("A")
    [] loc = "btbn_checksums" -> Hex64("B")
    [] loc = "src.sha256" -> Hex64("C")
    [] loc = "src.sha256.txt" -> Hex64("D")
    [] OTHER -> Hex64("E")

\* fetchChecksumText(ctx, client, loc), as lines: [lines, err]
fetchChecksumText(answers, loc, file) ==
  CASE answers[loc] = "fail" -> [lines |-> <<>>, err |-> "fetch"]
    [] answers[loc] = "named" ->
         [lines |-> << Hex64("9") \o <<" ", " ", "z", "z", ".", "z", "i", "p">>,
                       DigestOf(loc) \o <<" ", "*">> \o file >>,
          err |-> "nil"]
    [] answers[loc] = "single" -> [lines |-> <<DigestOf(loc), <<>>>>, err |-> "nil"]
    [] OTHER ->
         [lines |-> << Hex64("9") \o <<" ", " ", "z", "z", ".", "z", "i", "p">>,
                       Hex64("8") \o <<" ", " ", "y", "y", ".", "z", "i", "p">> >>,
          err |-> "nil"]

\* a faulty variant: a malformed override is passed over
UseOverrideIfValid(v) == TrimSpace(v) # <<>> /\ normalizeSHA256(v).err = "nil"

\* the `if v := strings.TrimSpace(os.Getenv(...)); v != ""` of both resolvers
UseOverride(v) == TrimSpace(v) # <<>>

\* a faulty variant: a manifest that cannot be parsed ends the resolution
AdvancesOnFetchOnly(err) == err = "fetch"

\* resolveFFmpegSHA256: a candidate with this error is passed over (`continue`)
Advances(err) == err \in {"fetch", "parse"}

\* the resolver's state before a call, the source URL left open
ResolverUnused ==
  /\ envDigest = <<>>
  /\ envManifestURL = FALSE
  /\ served = [loc \in {"sums"} |-> "fail"]
  /\ candidates = <<>>
  /\ fetched = <<>>
  /\ resolved = NoResolved
  /\ text = <<>>
  /\ targetName = <<>>
  /\ parsed = NoResolved

ResolverIdle == srcURL = GyanURL /\ ResolverUnused

(***************************************************************************)
(* The read loops of runYTDLP: one goroutine scans the subprocess's stdout, *)
(* one its stderr, and both call update on the same tracker.               *)
(***************************************************************************)
Loops == {"stdout", "stderr"}

\* a read loop outside any update call: its position, the line scanned
\* (rawLine), the locals of update (ok of the seenDest lookup, the values
\* read from hasStage and stageIndex, p), what update returned to it, and the
\* place of the call among those that took the lock (no, 0 before the lock)
IdleLoop == [pc |-> "scan", rawLine |-> NoLine, ok |-> FALSE, has |-> FALSE,
             idx |-> 0, p |-> 0, ret |-> NoRet, set |-> NoValue, no |-> 0]

\* handler runs of the Download button looked at
MaxTaps == 3

\* RunApp when the window opens (part_002:1003-1006, 1098): the button exists
\* and is disabled, the setup goroutine is about to run.
\*   setup     where the setup goroutine is, "done" or "failed" at its end
\*   why       what made it fail
\*   missing   what checkMissingTools returned; i: the tool being ensured
\*   fresh     freshYTDLPDownloaded
\*   toolsReady, preparedYTDLPPath, preparedFFmpegPath (TRUE: not empty)
\*   btn       the Download button is enabled
\*   taps      the runs of the button's handler so far
\*   sess      per handler run: "none" (no goroutine), or where its goroutine
\*             is: "begin", "subs", "run" (in runYTDLP), "scan" (its tracker
\*             exists), "ended"
\*   made      the trackers created so far; trk: the tracker of each session
AppIdle == [setup |-> "check", why |-> "", missing |-> <<>>, i |-> 0,
            fresh |-> FALSE, toolsReady |-> FALSE,
            preparedYTDLPPath |-> FALSE, preparedFFmpegPath |-> FALSE,
            btn |-> FALSE, taps |-> 0,
            sess |-> [k \in 1..MaxTaps |-> "none"],
            made |-> 0, trk |-> [k \in 1..MaxTaps |-> 0]]

LoopsIdle ==
  /\ app = AppIdle
  /\ quality = "Best"
  /\ hasSub = FALSE
  /\ playlist = FALSE
  /\ main = "start"
  /\ piped = [l \in Loops |-> <<>>]
  /\ pipes = [l \in Loops |-> <<>>]
  /\ mu = "free"
  /\ loop = [l \in Loops |-> IdleLoop]
  /\ rets = [l \in Loops |-> <<>>]
  /\ progress = NoValue
  /\ issued = 0
  /\ shown = 0

TrackerIdle ==
  /\ tracker = "nil"
  /\ totalStages = 0
  /\ stageIndex = 0
  /\ hasStage = FALSE
  /\ stageProgress = 0
  /\ seenDest = {}
  /\ ret = NoRet
  /\ lastShown = NoValue
  /\ prevShown = NoValue
  /\ lastLine = NoLine

CallIdle ==
  /\ pc = "idle"
  /\ data = <<>>
  /\ ctxCanceled = FALSE
  /\ expectedSHA = StrayDigest
  /\ tmp = 0
  /\ attempt = 0
  /\ lastErr = "nil"
  /\ body = <<>>
  /\ curTmp = 0
  /\ counter = 0
  /\ src = 0
  /\ caller = "none"
  /\ faults = 0
  /\ result = NoResult
  /\ calls = 0
  /\ events = <<>>
  /\ netLog = <<>>
  /\ waits = 0
  /\ replaced = 0
  /\ dlReturn = "none"
  /\ made = {}
  /\ errs = <<>>
  /\ installing = Absent
  /\ canceledIn = NotCanceled

EnsureStart ==
  /\ name \in Tools
  /\ release \in Payloads
  /\ published \in {computeFileSHA256(release), StrayDigest}
  /\ srcURL \in IF name = "ffmpeg.exe" THEN SourceURLs ELSE {GyanURL}
  /\ target \in {Absent, ExeOld, NoAccess}
  /\ sibling = Absent
  /\ temps = NoTemps
  /\ preTarget = target
  /\ CallIdle

(***************************************************************************)
(* EnsureBinaryWithProgressCtx (binaries.go:558-580)                       *)
(***************************************************************************)
\* what every call resets when it begins
Begin(d) ==
  /\ pc = "idle"
  /\ calls < MaxCalls
  /\ calls' = calls + 1
  /\ data' = d
  /\ ctxCanceled' = FALSE
  /\ preTarget' = target
  /\ events' = <<>>
  /\ netLog' = <<>>
  /\ waits' = 0
  /\ replaced' = 0
  /\ dlReturn' = "none"
  /\ made' = {}
  /\ errs' = <<>>
  /\ installing' = Absent
  /\ canceledIn' = NotCanceled
  /\ tmp' = 0
  /\ attempt' = 0
  /\ expectedSHA' = StrayDigest
  /\ lastErr' = "nil"
  /\ body' = <<>>
  /\ curTmp' = 0
  /\ counter' = 0
  /\ src' = 0
  /\ caller' = "none"
  /\ faults' = MaxFaults
  /\ UNCHANGED <<loopVars, trackerVars, updVars, resolverVars, envVars, fsVars, name>>

\* appDir fails (no cache dir, or it cannot be created): nothing exists below it
CallNoAppDir(d) ==
  /\ target = Absent
  /\ Begin(d)
  /\ pc' = "idle"
  /\ result' = Failed("appdir")

\* os.Stat succeeds: the path is returned
CallExists(d) ==
  /\ EnsureBranch(target, d) = "return"
  /\ Begin(d)
  /\ pc' = "idle"
  /\ result' = Ok

\* os.Stat fails with an error other than "not exist"
CallNoAccess(d) ==
  /\ EnsureBranch(target, d) = "access"
  /\ Begin(d)
  /\ pc' = "idle"
  /\ result' = Failed("access")

\* the target is missing and embedded bytes were supplied: os.WriteFile
CallWrite(d) ==
  /\ EnsureBranch(target, d) = "write"
  /\ Begin(d)
  /\ pc' = "write"
  /\ result' = NoResult

\* the target is missing and no bytes were supplied: downloadBinaryByName
CallDownload(d) ==
  /\ EnsureBranch(target, d) = "download"
  /\ Begin(d)
  /\ pc' = "resolve"
  /\ result' = NoResult

\* os.WriteFile, opening the target with O_CREATE|O_TRUNC
WriteOpen ==
  /\ pc = "write"
  /\ \/ /\ target' = <<>>
        /\ pc' = "write_data"
        /\ UNCHANGED result
     \/ /\ pc' = "idle"
        /\ result' = Failed("write")
        /\ UNCHANGED target
  /\ UNCHANGED <<loopVars, trackerVars, updVars, resolverVars, envVars, faults, sibling, temps, name, data, ctxCanceled,
                 expectedSHA, tmp, attempt, lastErr, body, curTmp, counter, src,
                 caller, histVars>>

\* os.WriteFile, writing the bytes: all of them, or a part of them and an error
WriteData ==
  /\ pc = "write_data"
  /\ \/ /\ target' = data
        /\ result' = Ok
     \/ /\ target' \in ProperPrefixes(data)
        /\ result' = Failed("write")
  /\ pc' = "idle"
  /\ UNCHANGED <<loopVars, trackerVars, updVars, resolverVars, envVars, faults, sibling, temps, name, data, ctxCanceled,
                 expectedSHA, tmp, attempt, lastErr, body, curTmp, counter, src,
                 caller, histVars>>

(***************************************************************************)
(* downloadBinaryByName (binaries.go:486-548)                              *)
(***************************************************************************)
\* a return of downloadBinaryByName: the deferred os.Remove(tmp) runs, and
\* EnsureBinaryWithProgressCtx returns the wrapped error
Return(res, tmps, ev) ==
  /\ pc' = "idle"
  /\ result' = res
  /\ temps' = IF tmp = 0 THEN tmps ELSE Without(tmps, tmp)
  /\ events' = ev

\* resolveYTDLPSHA256 / resolveFFmpegSHA256, or no source for the name
ResolveSHA ==
  /\ pc = "resolve"
  /\ IF name \notin {"yt-dlp.exe", "ffmpeg.exe"}
       THEN /\ Return(Failed("no_source"), temps, events)
            /\ UNCHANGED <<expectedSHA, netLog, attempt>>
       ELSE \E sc \in Scenarios(name) :
              LET r == Resolve(sc, published, ctxCanceled)
              IN  /\ netLog' = Logged(netLog, "checksum", r.reqs)
                  /\ IF r.err # "nil"
                       THEN /\ Return(Failed(r.err), temps, events)
                            /\ UNCHANGED <<expectedSHA, attempt>>
                       ELSE /\ expectedSHA' = r.sha
                            /\ attempt' = 1
                            /\ pc' = "dl_get"
                            /\ UNCHANGED <<result, temps, events>>
  /\ UNCHANGED <<loopVars, trackerVars, updVars, resolverVars, envVars, faults, target, sibling, name, data, ctxCanceled,
                 tmp, lastErr, body, curTmp, counter, src, caller, calls, waits,
                 preTarget, replaced, dlReturn, made, errs, installing, canceledIn>>

(***************************************************************************)
(* downloadToTempOnce (binaries.go:303-378)                                *)
(***************************************************************************)
\* an attempt returns an error to downloadToTemp
AttemptFails(e) ==
  /\ lastErr' = e
  /\ errs' = Append(errs, e)
  /\ pc' = "dl_failed"

\* client.Do fails: the context is canceled, or a network error
DlGetFail ==
  /\ pc = "dl_get"
  /\ faults' = IF ctxCanceled THEN faults ELSE faults - 1
  /\ IF ctxCanceled
       THEN /\ AttemptFails("canceled")
            /\ UNCHANGED netLog
       ELSE /\ faults > 0
            /\ \E e \in NetErrors : AttemptFails(e)
            /\ netLog' = Logged(netLog, "binary", 1)
  /\ UNCHANGED <<loopVars, trackerVars, updVars, resolverVars, envVars, fsVars, name, data, ctxCanceled, expectedSHA, tmp,
                 attempt, body, curTmp, counter, src, caller, result, calls,
                 events, waits, preTarget, replaced, dlReturn, made, installing, canceledIn>>

\* the response status is not 200
DlGetStatus ==
  /\ pc = "dl_get"
  /\ ~ctxCanceled
  /\ faults > 0
  /\ faults' = faults - 1
  /\ AttemptFails("status")
  /\ netLog' = Logged(netLog, "binary", 1)
  /\ UNCHANGED <<loopVars, trackerVars, updVars, resolverVars, envVars, fsVars, name, data, ctxCanceled, expectedSHA, tmp,
                 attempt, body, curTmp, counter, src, caller, result, calls,
                 events, waits, preTarget, replaced, dlReturn, made, installing, canceledIn>>

\* status 200: the start event, then os.CreateTemp succeeds or fails
DlGetOk ==
  /\ pc = "dl_get"
  /\ ~ctxCanceled
  /\ netLog' = Logged(netLog, "binary", 1)
  /\ events' = Emit(events, "start", 0)
  /\ \/ /\ body' = release
        /\ curTmp' = FreshTemp(temps)
        /\ temps' = With(temps, FreshTemp(temps), <<>>)
        /\ made' = made \cup {FreshTemp(temps)}
        /\ counter' = 0
        /\ pc' = "dl_copy"
        /\ UNCHANGED <<lastErr, errs, faults>>
     \/ /\ faults > 0
        /\ faults' = faults - 1
        /\ AttemptFails("io")
        /\ UNCHANGED <<body, curTmp, temps, made, counter>>
  /\ UNCHANGED <<loopVars, trackerVars, updVars, resolverVars, envVars, target, sibling, name, data, ctxCanceled,
                 expectedSHA, tmp, attempt, src, caller, result, calls, waits,
                 preTarget, replaced, dlReturn, installing, canceledIn>>

\* io.Copy: one Read delivers the next bytes, the tap counts them
DlReadChunk ==
  /\ pc = "dl_copy"
  /\ ~ctxCanceled
  /\ body # <<>>
  /\ LET chunk == Take(body, ChunkSize)
     IN  /\ temps' = With(temps, curTmp, temps[curTmp] \o chunk)
         /\ counter' = counter + Len(chunk)
         /\ events' = Emit(events, "downloading", counter + Len(chunk))
         /\ body' = Drop(body, ChunkSize)
  /\ UNCHANGED <<loopVars, trackerVars, updVars, resolverVars, envVars, faults, target, sibling, name, pc, data,
                 ctxCanceled, expectedSHA, tmp, attempt, lastErr, curTmp, src,
                 caller, result, calls, netLog, waits, preTarget, replaced,
                 dlReturn, made, errs, installing, canceledIn>>

\* io.Copy fails: the context is canceled (the canceled event), or a network
\* or disk error; the deferred function removes the temp file
DlReadFail ==
  /\ pc = "dl_copy"
  /\ faults' = IF ctxCanceled THEN faults ELSE faults - 1
  /\ IF ctxCanceled
       THEN /\ AttemptFails("canceled")
            /\ events' = Emit(events, "canceled", counter)
       ELSE /\ faults > 0
            /\ \E e \in NetErrors : AttemptFails(e)
            /\ UNCHANGED events
  /\ temps' = Cleanup(temps, curTmp, FALSE)
  /\ UNCHANGED <<loopVars, trackerVars, updVars, resolverVars, envVars, target, sibling, name, data, ctxCanceled,
                 expectedSHA, tmp, attempt, body, curTmp, counter, src, caller,
                 result, calls, netLog, waits, preTarget, replaced, dlReturn,
                 made, installing, canceledIn>>

\* the body is at its end: tmp.Close, then the done event and the return of
\* the path through downloadToTemp to downloadBinaryByName
DlFinish ==
  /\ pc = "dl_copy"
  /\ body = <<>>
  /\ \/ /\ temps' = Cleanup(temps, curTmp, TRUE)
        /\ events' = Emit(events, "done", counter)
        /\ tmp' = curTmp
        /\ dlReturn' = "ok"
        /\ pc' = "verify"
        /\ UNCHANGED <<lastErr, errs, faults>>
     \/ /\ faults > 0
        /\ faults' = faults - 1
        /\ temps' = Cleanup(temps, curTmp, FALSE)
        /\ AttemptFails("io")
        /\ UNCHANGED <<events, tmp, dlReturn>>
  /\ UNCHANGED <<loopVars, trackerVars, updVars, resolverVars, envVars, target, sibling, name, data, ctxCanceled,
                 expectedSHA, attempt, body, curTmp, counter, src, caller, result,
                 calls, netLog, waits, preTarget, replaced, made, installing, canceledIn>>

(***************************************************************************)
(* downloadToTemp (binaries.go:380-410)                                    *)
(***************************************************************************)
\* after a failed attempt: return ctx.Err(), return lastErr, or announce a retry
DlFailed ==
  /\ pc = "dl_failed"
  /\ LET what == AfterFailure(attempt, lastErr, ctxCanceled)
     IN  IF what = "retry"
           THEN /\ events' = Emit(events, "retry", 0)
                /\ waits' = waits + 1
                /\ pc' = "dl_backoff"
                /\ UNCHANGED <<result, temps, dlReturn>>
           ELSE /\ Return(Failed(IF what = "cancel" THEN "canceled" ELSE lastErr),
                          temps, events)
                /\ dlReturn' = "err"
                /\ UNCHANGED waits
  /\ UNCHANGED <<loopVars, trackerVars, updVars, resolverVars, envVars, faults, target, sibling, name, data, ctxCanceled,
                 expectedSHA, tmp, attempt, lastErr, body, curTmp, counter, src,
                 caller, calls, netLog, preTarget, replaced, made, errs,
                 installing, canceledIn>>

\* the backoff select: the context is done, or the timer fires and the loop
\* goes on to the next attempt
DlBackoff ==
  /\ pc = "dl_backoff"
  /\ IF ctxCanceled \/ attempt + 1 > maxDownloadAttempts
       THEN /\ Return(Failed(IF ctxCanceled THEN "canceled" ELSE lastErr),
                      temps, events)
            /\ dlReturn' = "err"
            /\ UNCHANGED attempt
       ELSE /\ attempt' = attempt + 1
            /\ pc' = "dl_get"
            /\ UNCHANGED <<result, temps, events, dlReturn>>
  /\ UNCHANGED <<loopVars, trackerVars, updVars, resolverVars, envVars, faults, target, sibling, name, data, ctxCanceled,
                 expectedSHA, tmp, lastErr, body, curTmp, counter, src, caller,
                 calls, netLog, waits, preTarget, replaced, made, errs,
                 installing, canceledIn>>

(***************************************************************************)
(* downloadBinaryByName, after the download                                *)
(***************************************************************************)
\* entering replaceFileAtomic(path, id)
Install(id, from) ==
  /\ src' = id
  /\ caller' = from
  /\ replaced' = replaced + 1
  /\ installing' = temps[id]
  /\ pc' = "r_remove"

\* verifyFileSHA256(tmp, expectedSHA, ...): unreadable, mismatch, or equal
Verify ==
  /\ pc = "verify"
  /\ \/ Return(Failed("io"), temps, events)
     \/ IF verifyFileSHA256(temps[tmp], expectedSHA)
          THEN /\ pc' = "sniff_exe"
               /\ UNCHANGED <<result, temps, events>>
          ELSE Return(Failed("mismatch"), temps, events)
  /\ UNCHANGED <<loopVars, trackerVars, updVars, resolverVars, envVars, faults, target, sibling, name, data, ctxCanceled,
                 expectedSHA, tmp, attempt, lastErr, body, curTmp, counter, src,
                 caller, calls, netLog, waits, preTarget, replaced, dlReturn,
                 made, errs, installing, canceledIn>>

\* looksLikeWindowsExe(tmp): unreadable, an executable (install it), or not
SniffExe ==
  /\ pc = "sniff_exe"
  /\ \/ /\ Return(Failed("io"), temps, events)
        /\ UNCHANGED <<src, caller, replaced, installing>>
     \/ IF looksLikeWindowsExe(temps[tmp])
          THEN /\ Install(tmp, "direct")
               /\ UNCHANGED <<result, temps, events>>
          ELSE IF name = "ffmpeg.exe"
            THEN /\ pc' = "sniff_zip"
                 /\ UNCHANGED <<result, temps, events, src, caller, replaced,
                                installing>>
            ELSE /\ Return(Failed("not_exe"), temps, events)
                 /\ UNCHANGED <<src, caller, replaced, installing>>
  /\ UNCHANGED <<loopVars, trackerVars, updVars, resolverVars, envVars, faults, target, sibling, name, data, ctxCanceled,
                 expectedSHA, tmp, attempt, lastErr, body, curTmp, counter, calls,
                 netLog, waits, preTarget, dlReturn, made, errs, canceledIn>>

\* looksLikeZip(tmp): unreadable, an archive (extract_start), or unsupported
SniffZip ==
  /\ pc = "sniff_zip"
  /\ \/ Return(Failed("io"), temps, events)
     \/ IF looksLikeZip(temps[tmp])
          THEN /\ events' = Emit(events, "extract_start", 0)
               /\ pc' = "extract"
               /\ UNCHANGED <<result, temps>>
          ELSE Return(Failed("unsupported"), temps, events)
  /\ UNCHANGED <<loopVars, trackerVars, updVars, resolverVars, envVars, faults, target, sibling, name, data, ctxCanceled,
                 expectedSHA, tmp, attempt, lastErr, body, curTmp, counter, src,
                 caller, calls, netLog, waits, preTarget, replaced, dlReturn,
                 made, errs, installing, canceledIn>>

(***************************************************************************)
(* extractFFmpegFromZip (binaries.go:431-484).  Every return of it is      *)
(* followed by the deferred extract_done event of downloadBinaryByName.    *)
(***************************************************************************)
\* zip.OpenReader, the selection, and the copy of the entry to a new temp file
Extract ==
  /\ pc = "extract"
  /\ LET files == ZipEntries(temps[tmp])
         sel == SelectEntry(files)
         done == Emit(events, "extract_done", 0)
     IN  \/ /\ Return(Failed("io"), temps, done)
            /\ UNCHANGED <<curTmp, made>>
         \/ IF ~IsArchive(temps[tmp])
              THEN /\ Return(Failed("zip"), temps, done)
                   /\ UNCHANGED <<curTmp, made>>
              ELSE IF sel = 0
                THEN /\ Return(Failed("not_found"), temps, done)
                     /\ UNCHANGED <<curTmp, made>>
                ELSE /\ temps' = With(temps, FreshTemp(temps), files[sel].bytes)
                     /\ curTmp' = FreshTemp(temps)
                     /\ made' = made \cup {FreshTemp(temps)}
                     /\ pc' = "extract_sniff"
                     /\ UNCHANGED <<result, events>>
  /\ UNCHANGED <<loopVars, trackerVars, updVars, resolverVars, envVars, faults, target, sibling, name, data, ctxCanceled,
                 expectedSHA, tmp, attempt, lastErr, body, counter, src, caller,
                 calls, netLog, waits, preTarget, replaced, dlReturn, errs,
                 installing, canceledIn>>

\* looksLikeWindowsExe on the extracted file, then replaceFileAtomic(dst, it)
ExtractSniff ==
  /\ pc = "extract_sniff"
  /\ LET done == Emit(events, "extract_done", 0)
     IN  \/ /\ Return(Failed("io"), Without(temps, curTmp), done)
            /\ UNCHANGED <<src, caller, replaced, installing>>
         \/ IF looksLikeWindowsExe(temps[curTmp])
              THEN /\ Install(curTmp, "extract")
                   /\ UNCHANGED <<result, temps, events>>
              ELSE /\ Return(Failed("not_exe"), Without(temps, curTmp), done)
                   /\ UNCHANGED <<src, caller, replaced, installing>>
  /\ UNCHANGED <<loopVars, trackerVars, updVars, resolverVars, envVars, faults, target, sibling, name, data, ctxCanceled,
                 expectedSHA, tmp, attempt, lastErr, body, curTmp, counter, calls,
                 netLog, waits, preTarget, dlReturn, made, errs, canceledIn>>

(***************************************************************************)
(* replaceFileAtomic (binaries.go:412-429), one file-system call per step  *)
(***************************************************************************)
\* a return of replaceFileAtomic, and through its caller to ensure
InstallReturn(res, tmps) ==
  Return(res, tmps,
         IF caller = "extract" THEN Emit(events, "extract_done", 0) ELSE events)

\* os.Remove(dst + ".new"): gone (or was not there), or an error
RRemove ==
  /\ pc = "r_remove"
  /\ \/ /\ sibling' = Absent
        /\ pc' = "r_rename"
        /\ UNCHANGED <<result, temps, events>>
     \/ /\ sibling # Absent
        /\ InstallReturn(Failed("io"), temps)
        /\ UNCHANGED sibling
  /\ UNCHANGED <<loopVars, trackerVars, updVars, resolverVars, envVars, faults, target, name, data, ctxCanceled,
                 expectedSHA, tmp, attempt, lastErr, body, curTmp, counter, src,
                 caller, calls, netLog, waits, preTarget, replaced, dlReturn,
                 made, errs, installing, canceledIn>>

\* os.Rename(src, dst + ".new")
RRename ==
  /\ pc = "r_rename"
  /\ \/ /\ sibling' = temps[src]
        /\ temps' = Without(temps, src)
        /\ pc' = "r_chmod"
        /\ UNCHANGED <<result, events>>
     \/ /\ InstallReturn(Failed("io"), temps)
        /\ UNCHANGED sibling
  /\ UNCHANGED <<loopVars, trackerVars, updVars, resolverVars, envVars, faults, target, name, data, ctxCanceled,
                 expectedSHA, tmp, attempt, lastErr, body, curTmp, counter, src,
                 caller, calls, netLog, waits, preTarget, replaced, dlReturn,
                 made, errs, installing, canceledIn>>

\* os.Chmod(dst + ".new", 0755); on failure the sibling is removed
RChmod ==
  /\ pc = "r_chmod"
  /\ \/ /\ pc' = "r_commit"
        /\ UNCHANGED <<result, temps, events, sibling>>
     \/ /\ sibling' = Absent
        /\ InstallReturn(Failed("io"), temps)
  /\ UNCHANGED <<loopVars, trackerVars, updVars, resolverVars, envVars, faults, target, name, data, ctxCanceled,
                 expectedSHA, tmp, attempt, lastErr, body, curTmp, counter, src,
                 caller, calls, netLog, waits, preTarget, replaced, dlReturn,
                 made, errs, installing, canceledIn>>

\* a faulty variant: the failing rename has put the file in place all the same
RCommitHalfDone ==
  /\ pc = "r_commit"
  /\ \/ /\ target' = RenameOver(target, sibling)
        /\ InstallReturn(Ok, temps)
     \/ /\ InstallReturn(Failed("io"), temps)
        /\ target' = sibling
  /\ sibling' = Absent
  /\ UNCHANGED <<loopVars, trackerVars, updVars, resolverVars, envVars, faults, name, data, ctxCanceled, expectedSHA, tmp,
                 attempt, lastErr, body, curTmp, counter, src, caller, calls,
                 netLog, waits, preTarget, replaced, dlReturn, made, errs,
                 installing, canceledIn>>

\* os.Rename(dst + ".new", dst); on failure the sibling is removed
RCommit ==
  /\ pc = "r_commit"
  /\ \/ /\ target' = RenameOver(target, sibling)
        /\ InstallReturn(Ok, temps)
     \/ /\ InstallReturn(Failed("io"), temps)
        /\ UNCHANGED target
  /\ sibling' = Absent
  /\ UNCHANGED <<loopVars, trackerVars, updVars, resolverVars, envVars, faults, name, data, ctxCanceled, expectedSHA, tmp,
                 attempt, lastErr, body, curTmp, counter, src, caller, calls,
                 netLog, waits, preTarget, replaced, dlReturn, made, errs,
                 installing, canceledIn>>

(***************************************************************************)
(* The environment                                                         *)
(***************************************************************************)
\* the caller cancels the context of a running call; the context is read by the
\* checksum lookup and by downloadToTemp only
Cancel ==
  /\ pc \in FetchPcs \cup {"resolve"}
  /\ ~ctxCanceled
  /\ ctxCanceled' = TRUE
  /\ canceledIn' = IF pc \in FetchPcs
                     THEN [at |-> pc, attempt |-> attempt]
                     ELSE canceledIn
  /\ UNCHANGED <<loopVars, trackerVars, updVars, resolverVars, envVars, faults, fsVars, name, pc, data, expectedSHA, tmp, attempt,
                 lastErr, body, curTmp, counter, src, caller, result, calls,
                 events, netLog, waits, preTarget, replaced, dlReturn, made, errs,
                 installing>>

\* the process dies while the call is changing the app dir; the files stay as
\* they are
Crash ==
  /\ pc \in InstallPcs \cup {"write_data"}
  /\ pc' = "idle"
  /\ result' = [st |-> "crashed", err |-> "nil"]
  /\ UNCHANGED <<loopVars, trackerVars, updVars, resolverVars, envVars, faults, fsVars, name, data, ctxCanceled, expectedSHA, tmp,
                 attempt, lastErr, body, curTmp, counter, src, caller, histVars>>

Next ==
  \/ \E d \in Embedded : CallNoAppDir(d)
  \/ \E d \in Embedded : CallExists(d)
  \/ \E d \in Embedded : CallNoAccess(d)
  \/ \E d \in Embedded : CallWrite(d)
  \/ \E d \in Embedded : CallDownload(d)
  \/ WriteOpen
  \/ WriteData
  \/ ResolveSHA
  \/ DlGetFail
  \/ DlGetStatus
  \/ DlGetOk
  \/ DlReadChunk
  \/ DlReadFail
  \/ DlFinish
  \/ DlFailed
  \/ DlBackoff
  \/ Verify
  \/ SniffExe
  \/ SniffZip
  \/ Extract
  \/ ExtractSniff
  \/ RRemove
  \/ RRename
  \/ RChmod
  \/ RCommit
  \/ Cancel
  \/ Crash

Init == EnsureStart /\ TrackerIdle /\ UpdateIdle /\ ResolverUnused /\ LoopsIdle

Spec == Init /\ [][Next]_vars

(***************************************************************************)
(* downloadToTemp on its own: a call that has resolved its digest and is   *)
(* about to issue the first GET.                                           *)
(***************************************************************************)
FetchStart ==
  /\ name \in {"yt-dlp.exe", "ffmpeg.exe"}
  /\ release \in Payloads
  /\ published = StrayDigest
  /\ target = Absent
  /\ sibling = Absent
  /\ temps = NoTemps
  /\ preTarget = Absent
  /\ pc = "dl_get"
  /\ data = <<>>
  /\ ctxCanceled = FALSE
  /\ expectedSHA = StrayDigest
  /\ tmp = 0
  /\ attempt = 1
  /\ lastErr = "nil"
  /\ body = <<>>
  /\ curTmp = 0
  /\ counter = 0
  /\ src = 0
  /\ caller = "none"
  /\ faults = MaxFetchFaults
  /\ result = NoResult
  /\ calls = 1
  /\ events = <<>>
  /\ netLog = <<"checksum">>
  /\ waits = 0
  /\ replaced = 0
  /\ dlReturn = "none"
  /\ made = {}
  /\ errs = <<>>
  /\ installing = Absent
  /\ canceledIn = NotCanceled

NextFetch ==
  \/ DlGetFail
  \/ DlGetStatus
  \/ DlGetOk
  \/ DlReadChunk
  \/ DlReadFail
  \/ DlFinish
  \/ DlFailed
  \/ DlBackoff
  \/ Cancel

InitFetch == FetchStart /\ TrackerIdle /\ UpdateIdle /\ ResolverIdle /\ LoopsIdle

SpecFetch == InitFetch /\ [][NextFetch]_vars

(***************************************************************************)
(* replaceFileAtomic(dst, src) on its own, for any dst, any stale sibling  *)
(* and any source file.                                                    *)
(***************************************************************************)
InstallStart ==
  /\ name \in {"yt-dlp.exe", "ffmpeg.exe"}
  /\ target \in {Absent, ExeOld}
  /\ sibling \in {Absent, StaleSibling}
  /\ \E content \in Payloads :
       /\ temps = With(NoTemps, 1, content)
       /\ installing = content
       /\ release = content
       /\ published = computeFileSHA256(content)
       /\ expectedSHA = computeFileSHA256(content)
  /\ preTarget = target
  /\ pc = "r_remove"
  /\ data = <<>>
  /\ ctxCanceled = FALSE
  /\ tmp = 1
  /\ attempt = 1
  /\ lastErr = "nil"
  /\ body = <<>>
  /\ curTmp = 1
  /\ counter = 0
  /\ src = 1
  /\ caller = "direct"
  /\ faults = 0
  /\ result = NoResult
  /\ calls = 1
  /\ events = <<>>
  /\ netLog = <<>>
  /\ waits = 0
  /\ replaced = 1
  /\ dlReturn = "ok"
  /\ made = {1}
  /\ errs = <<>>
  /\ canceledIn = NotCanceled

NextInstall ==
  \/ RRemove
  \/ RRename
  \/ RChmod
  \/ RCommit

InitInstall == InstallStart /\ TrackerIdle /\ UpdateIdle /\ ResolverIdle /\ LoopsIdle

SpecInstall == InitInstall /\ [][NextInstall]_vars

InitTracker == TrackerStart /\ EnsureStart /\ name = "yt-dlp.exe"
               /\ release = ExeNew /\ published = StrayDigest
               /\ target = Absent /\ UpdateIdle /\ ResolverIdle /\ LoopsIdle

SpecTracker == InitTracker /\ [][NextTracker]_vars

(***************************************************************************)
(* TryUpdateYTDLPWithProgressCtx and downloadLatest (cmd_windows.go),      *)
(* step by step, against an installed yt-dlp.exe.                          *)
(***************************************************************************)
UpdatePcs == {"u_latest", "u_resolve", "u_get", "u_peek", "u_copy"}

\* what no step of the update check changes
UpdateFrame ==
  UNCHANGED <<loopVars, trackerVars, resolverVars, envVars, versionOut, tagName, temps, name, data, tmp,
              attempt, lastErr, curTmp, src, caller, faults, calls, waits,
              preTarget, replaced, dlReturn, made, errs, installing, canceledIn>>

\* a return of TryUpdateYTDLPWithProgressCtx, after a last word to logf
UReturn(res, msg) ==
  /\ pc' = "idle"
  /\ result' = res
  /\ said' = Append(said, msg)

\* an error return of downloadLatest: logf("yt-dlp update failed: ...")
UFail(e) == UReturn(Failed(e), "update_failed")

\* TryUpdateYTDLPWithProgressCtx is called (once in a behaviour)
UBegin ==
  /\ pc = "idle"
  /\ calls = 0
  /\ calls' = 1
  /\ pc' = "u_local"
  /\ UNCHANGED <<loopVars, trackerVars, resolverVars, envVars, fsVars, updVars, name, data, ctxCanceled,
                 expectedSHA, tmp, attempt, lastErr, body, curTmp, counter, src,
                 caller, faults, result, events, netLog, waits, preTarget,
                 replaced, dlReturn, made, errs, installing, canceledIn>>

\* getLocalVersion(path)
UGetLocal ==
  /\ pc = "u_local"
  /\ IF getLocalVersion(versionOut).err # "nil"
       THEN UReturn(Failed(getLocalVersion(versionOut).err), "no_local_version")
       ELSE /\ pc' = "u_latest"
            /\ UNCHANGED <<result, said>>
  /\ UNCHANGED <<target, sibling, expectedSHA, body, counter, ctxCanceled, events,
                 netLog, opened>>
  /\ UpdateFrame

\* getLatestVersion(ctx, apiClient), then needsUpdate(local, latest)
UGetLatest ==
  /\ pc = "u_latest"
  /\ netLog' = Logged(netLog, "api", 1)
  /\ LET local == getLocalVersion(versionOut).v
         latest == getLatestVersion(tagName)
     IN  IF ctxCanceled \/ tagName = ApiFails
           THEN UReturn(Failed("api"), "no_latest_version")
           ELSE IF latest.err # "nil"
             THEN UReturn(Failed(latest.err), "no_latest_version")
             ELSE IF ~needsUpdate(local, latest.v)
               THEN UReturn(Ok, "up_to_date")
               ELSE /\ said' = Append(said, "updating")
                    /\ pc' = "u_resolve"
                    /\ UNCHANGED result
  /\ UNCHANGED <<target, sibling, expectedSHA, body, counter, ctxCanceled, events,
                 opened>>
  /\ UpdateFrame

\* downloadLatest: resolveYTDLPSHA256(ctx)
UResolve ==
  /\ pc = "u_resolve"
  /\ \E sc \in Scenarios("yt-dlp.exe") :
       LET r == Resolve(sc, published, ctxCanceled)
       IN  /\ netLog' = Logged(netLog, "checksum", r.reqs)
           /\ IF r.err # "nil"
                THEN /\ UFail(r.err)
                     /\ UNCHANGED expectedSHA
                ELSE /\ expectedSHA' = r.sha
                     /\ pc' = "u_get"
                     /\ UNCHANGED <<result, said>>
  /\ UNCHANGED <<target, sibling, body, counter, ctxCanceled, events, opened>>
  /\ UpdateFrame

\* client.Do and the status check; on 200 the start event
UGet ==
  /\ pc = "u_get"
  /\ \/ /\ UFail(IF ctxCanceled THEN "canceled" ELSE "net")
        /\ netLog' = IF ctxCanceled THEN netLog ELSE Logged(netLog, "binary", 1)
        /\ UNCHANGED <<body, events>>
     \/ /\ ~ctxCanceled
        /\ UFail("status")
        /\ netLog' = Logged(netLog, "binary", 1)
        /\ UNCHANGED <<body, events>>
     \/ /\ ~ctxCanceled
        /\ netLog' = Logged(netLog, "binary", 1)
        /\ events' = Emit(events, "start", 0)
        /\ body' = release
        /\ pc' = "u_open"
        /\ UNCHANGED <<result, said>>
  /\ UNCHANGED <<target, sibling, expectedSHA, counter, ctxCanceled, opened>>
  /\ UpdateFrame

\* os.OpenFile(path + ".new", O_CREATE|O_TRUNC|O_WRONLY)
UOpen ==
  /\ pc = "u_open"
  /\ \/ /\ sibling' = <<>>
        /\ opened' = TRUE
        /\ pc' = "u_peek"
        /\ UNCHANGED <<result, said>>
     \/ /\ UFail("io")
        /\ UNCHANGED <<sibling, opened>>
  /\ UNCHANGED <<target, expectedSHA, body, counter, ctxCanceled, events, netLog>>
  /\ UpdateFrame

\* reader.Peek(2) and the "MZ" check; on failure the sibling is removed
UPeek ==
  /\ pc = "u_peek"
  /\ \/ /\ UFail("inspect")
        /\ sibling' = Absent
     \/ /\ ~ctxCanceled
        /\ Len(body) >= 2
        /\ IF Take(body, 2) = <<"M", "Z">>
             THEN /\ pc' = "u_copy"
                  /\ UNCHANGED <<result, said, sibling>>
             ELSE /\ UFail("not_exe")
                  /\ sibling' = Absent
  /\ UNCHANGED <<target, expectedSHA, body, counter, ctxCanceled, events, netLog,
                 opened>>
  /\ UpdateFrame

\* io.Copy: one Read goes to the file and to the hash, the tap counts it
UCopyChunk ==
  /\ pc = "u_copy"
  /\ ~ctxCanceled
  /\ body # <<>>
  /\ LET chunk == Take(body, ChunkSize)
     IN  /\ sibling' = sibling \o chunk
         /\ counter' = counter + Len(chunk)
         /\ events' = Emit(events, "downloading", counter + Len(chunk))
         /\ body' = Drop(body, ChunkSize)
  /\ UNCHANGED <<pc, result, said, target, expectedSHA, ctxCanceled, netLog, opened>>
  /\ UpdateFrame

\* io.Copy fails (the stream breaks, the disk is full, the context is
\* canceled): the sibling is removed
UCopyFail ==
  /\ pc = "u_copy"
  /\ UFail(IF ctxCanceled THEN "canceled" ELSE "io")
  /\ sibling' = Absent
  /\ UNCHANGED <<target, expectedSHA, body, counter, ctxCanceled, events, netLog,
                 opened>>
  /\ UpdateFrame

\* the stream is at its end: the digest of what was written is compared
UHash ==
  /\ pc = "u_copy"
  /\ body = <<>>
  /\ IF SameDigest(computeFileSHA256(sibling), expectedSHA)
       THEN /\ pc' = "u_close"
            /\ UNCHANGED <<result, said, sibling>>
       ELSE /\ UFail("mismatch")
            /\ sibling' = Absent
  /\ UNCHANGED <<target, expectedSHA, body, counter, ctxCanceled, events, netLog,
                 opened>>
  /\ UpdateFrame

\* out.Close(); on failure the sibling is removed
UClose ==
  /\ pc = "u_close"
  /\ \/ /\ pc' = "u_rename"
        /\ UNCHANGED <<result, said, sibling>>
     \/ /\ UFail("io")
        /\ sibling' = Absent
  /\ UNCHANGED <<target, expectedSHA, body, counter, ctxCanceled, events, netLog,
                 opened>>
  /\ UpdateFrame

\* os.Rename(path + ".new", path), the done event and the last word; on
\* failure the sibling is removed
URename ==
  /\ pc = "u_rename"
  /\ \/ /\ target' = RenameOver(target, sibling)
        /\ events' = Emit(events, "done", counter)
        /\ UReturn(Ok, "update_complete")
     \/ /\ UFail("io")
        /\ UNCHANGED <<target, events>>
  /\ sibling' = Absent
  /\ UNCHANGED <<expectedSHA, body, counter, ctxCanceled, netLog, opened>>
  /\ UpdateFrame

\* the caller cancels the context of the running update check
UpdateCancel ==
  /\ pc \in UpdatePcs
  /\ ~ctxCanceled
  /\ ctxCanceled' = TRUE
  /\ UNCHANGED <<pc, result, said, target, sibling, expectedSHA, body, counter,
                 events, netLog, opened>>
  /\ UpdateFrame

UpdateStart ==
  /\ name = "yt-dlp.exe"
  /\ release \in Payloads
  /\ published \in {computeFileSHA256(release), StrayDigest}
  /\ target = ExeOld
  /\ sibling \in {Absent, StaleSibling}
  /\ temps = NoTemps
  /\ preTarget = target
  /\ CallIdle
  /\ versionOut \in VersionOutputs
  /\ tagName \in TagNames
  /\ said = <<>>
  /\ opened = FALSE

NextUpdate ==
  \/ UBegin
  \/ UGetLocal
  \/ UGetLatest
  \/ UResolve
  \/ UGet
  \/ UOpen
  \/ UPeek
  \/ UCopyChunk
  \/ UCopyFail
  \/ UHash
  \/ UClose
  \/ URename
  \/ UpdateCancel

InitUpdate == UpdateStart /\ TrackerIdle /\ ResolverIdle /\ LoopsIdle

SpecUpdate == InitUpdate /\ [][NextUpdate]_vars

(***************************************************************************)
(* resolveYTDLPSHA256 and resolveFFmpegSHA256 on their own, for any        *)
(* override and any answers of the manifest locations.                     *)
(***************************************************************************)
\* what no step of the resolver or of the parser changes
ResolverFrame ==
  UNCHANGED <<loopVars, trackerVars, envVars, fsVars, updVars, histVars, name, data,
              ctxCanceled, expectedSHA, tmp, attempt, lastErr, body, curTmp, counter,
              src, caller, faults, result, envDigest, envManifestURL, srcURL,
              served>>

\* the digest override is looked at; without one the candidates are listed
RStart ==
  /\ pc = "idle"
  /\ resolved = NoResolved
  /\ fetched = <<>>
  /\ name \in {"yt-dlp.exe", "ffmpeg.exe"}
  /\ IF UseOverride(envDigest)
       THEN /\ resolved' = normalizeSHA256(TrimSpace(envDigest))
            /\ UNCHANGED <<pc, candidates>>
       ELSE /\ pc' = "rs_fetch"
            /\ candidates' = IF name = "yt-dlp.exe" THEN <<"sums">>
                             ELSE CandidatesFor(envManifestURL, srcURL)
            /\ UNCHANGED resolved
  /\ UNCHANGED <<fetched, text, targetName, parsed>>
  /\ ResolverFrame

\* resolveYTDLPSHA256: fetch SHA2-256SUMS, parse it, normalise (binaries.go:211-220)
RFetchYTDLP ==
  /\ pc = "rs_fetch"
  /\ name = "yt-dlp.exe"
  /\ LET t == fetchChecksumText(served, "sums", YtDlpExe)
         p == parseSHA256FromList(t.lines, YtDlpExe)
     IN  /\ fetched' = Append(fetched, "sums")
         /\ resolved' = IF t.err # "nil" THEN [sum |-> <<>>, err |-> "fetch"]
                        ELSE IF p.err # "nil" THEN [sum |-> <<>>, err |-> "parse"]
                        ELSE normalizeSHA256(p.sum)
  /\ pc' = "idle"
  /\ candidates' = <<>>
  /\ UNCHANGED <<text, targetName, parsed>>
  /\ ResolverFrame

\* resolveFFmpegSHA256: one turn of the candidate loop (binaries.go:240-252)
RFetchFFmpeg ==
  /\ pc = "rs_fetch"
  /\ name = "ffmpeg.exe"
  /\ candidates # <<>>
  /\ LET loc == Head(candidates)
         file == checksumTargetName(srcURL)
         t == fetchChecksumText(served, loc, file)
         p == parseSHA256FromList(t.lines, file)
         err == IF t.err # "nil" THEN "fetch" ELSE p.err
     IN  /\ fetched' = Append(fetched, loc)
         /\ IF Advances(err)
              THEN /\ candidates' = Tail(candidates)
                   /\ UNCHANGED <<pc, resolved>>
              ELSE /\ resolved' = IF err = "nil" THEN normalizeSHA256(p.sum)
                                  ELSE [sum |-> <<>>, err |-> err]
                   /\ pc' = "idle"
                   /\ UNCHANGED candidates
  /\ UNCHANGED <<text, targetName, parsed>>
  /\ ResolverFrame

\* resolveFFmpegSHA256: no candidate is left (binaries.go:253-256)
RExhausted ==
  /\ pc = "rs_fetch"
  /\ name = "ffmpeg.exe"
  /\ candidates = <<>>
  /\ resolved' = [sum |-> <<>>, err |-> "checksum"]
  /\ pc' = "idle"
  /\ UNCHANGED <<candidates, fetched, text, targetName, parsed>>
  /\ ResolverFrame

ResolveStart ==
  /\ name \in {"yt-dlp.exe", "ffmpeg.exe"}
  /\ release = ExeNew
  /\ published = StrayDigest
  /\ target = Absent
  /\ sibling = Absent
  /\ temps = NoTemps
  /\ preTarget = Absent
  /\ CallIdle
  /\ envDigest \in Overrides
  /\ IF name = "yt-dlp.exe"
       THEN /\ envManifestURL = FALSE
            /\ srcURL = GyanURL
            /\ served \in [{"sums"} -> Answers]
       ELSE /\ envManifestURL \in BOOLEAN
            /\ srcURL \in {GyanURL, BtbnURL}
            /\ served \in [FFmpegLocations -> Answers]
  /\ candidates = <<>>
  /\ fetched = <<>>
  /\ resolved = NoResolved
  /\ text = <<>>
  /\ targetName = <<>>
  /\ parsed = NoResolved

NextResolve ==
  \/ RStart
  \/ RFetchYTDLP
  \/ RFetchFFmpeg
  \/ RExhausted

InitResolve == ResolveStart /\ TrackerIdle /\ UpdateIdle /\ LoopsIdle

SpecResolve == InitResolve /\ [][NextResolve]_vars

(***************************************************************************)
(* parseSHA256FromList on its own, for any manifest of a few lines.        *)
(***************************************************************************)
ParseList ==
  /\ pc = "idle"
  /\ parsed = NoResolved
  /\ text # <<>>
  /\ parsed' = parseSHA256FromList(RenderAll(text), targetName)
  /\ UNCHANGED <<pc, candidates, fetched, resolved, text, targetName>>
  /\ ResolverFrame

ParseStart ==
  /\ name = "yt-dlp.exe"
  /\ release = ExeNew
  /\ published = StrayDigest
  /\ target = Absent
  /\ sibling = Absent
  /\ temps = NoTemps
  /\ preTarget = Absent
  /\ CallIdle
  /\ envDigest = <<>>
  /\ envManifestURL = FALSE
  /\ srcURL = GyanURL
  /\ served = [loc \in {"sums"} |-> "fail"]
  /\ candidates = <<>>
  /\ fetched = <<>>
  /\ resolved = NoResolved
  /\ text \in Texts
  /\ targetName \in TargetNames
  /\ parsed = NoResolved

NextParse == ParseList

InitParse == ParseStart /\ TrackerIdle /\ UpdateIdle /\ LoopsIdle

SpecParse == InitParse /\ [][NextParse]_vars

(***************************************************************************)
(* runYTDLP from the creation of the tracker to its return (part_002:866-898) *)
(* with scanAndLog (231-267) in its two goroutines, and update (150-196)   *)
(* inside them statement by statement: the lock, each read of a field of   *)
(* the tracker and each write to one are steps of their own.               *)
(***************************************************************************)
DestLine(d) == [dest |-> d, pct |-> NoPct, merger |-> FALSE, embed |-> FALSE]

PctLine(p) == [dest |-> NoDest, pct |-> p, merger |-> FALSE, embed |-> FALSE]

MergerLine == [dest |-> NoDest, pct |-> NoPct, merger |-> TRUE, embed |-> FALSE]

\* the lines the subprocess writes in a session
Output == {DestLine("a.mp4"), DestLine("a.m4a"), PctLine(<<42, 0>>), MergerLine}

\* the lines the subprocess writes around the end of a download
EndOutput == {DestLine("a.mp4"), PctLine(<<100, 0>>), MergerLine}

\* lines the subprocess writes in a session, over both pipes
MaxFed == 3

Scripts == UNION {[1..n -> Output] : n \in 0..MaxFed}

EndScripts == UNION {[1..n -> EndOutput] : n \in 0..MaxFed}

\* a faulty variant: the lock excludes nobody
MuFreeAlways(m) == TRUE

\* t.mu.Lock() returns when no goroutine holds the lock
MuFree(m) == m = "free"

LoopFrame ==
  UNCHANGED <<app, ret, lastShown, prevShown, lastLine, envVars, fsVars, callVars, histVars,
              updVars, resolverVars, quality, hasSub, playlist, piped>>

TrackerSame ==
  UNCHANGED <<tracker, totalStages, stageIndex, hasStage, stageProgress, seenDest>>

At(l, p) == main = "scanning" /\ loop[l].pc = p

\* tracker := newDownloadProgressTracker(quality, subOpt, playlist) (part_002:866)
NewTracker ==
  /\ main = "start"
  /\ main' = "scanning"
  /\ tracker' = IF playlist THEN "nil" ELSE "live"
  /\ totalStages' = IF playlist THEN 0 ELSE StagesFor(quality, hasSub)
  /\ stageIndex' = 0
  /\ hasStage' = FALSE
  /\ stageProgress' = 0
  /\ seenDest' = {}
  /\ UNCHANGED <<pipes, mu, loop, rets, progress, issued, shown>>
  /\ LoopFrame

\* scanAndLog: sc.Scan() and rawLine := sc.Text() (part_002:233-234)
Scan(l) ==
  /\ At(l, "scan")
  /\ IF pipes[l] = <<>>
       THEN /\ loop' = [loop EXCEPT ![l].pc = "done"]
            /\ UNCHANGED pipes
       ELSE /\ loop' = [loop EXCEPT ![l] = [IdleLoop EXCEPT !.pc = "call",
                                                           !.rawLine = Head(pipes[l])]]
            /\ pipes' = [pipes EXCEPT ![l] = Tail(pipes[l])]
  /\ UNCHANGED <<main, mu, rets, progress, issued, shown>>
  /\ TrackerSame
  /\ LoopFrame

\* onProgress(rawLine): update on a nil tracker returns at once (151-153)
Call(l) ==
  /\ At(l, "call")
  /\ loop' = IF tracker = "nil"
               THEN [loop EXCEPT ![l].ret = NoRet, ![l].pc = "returned"]
               ELSE [loop EXCEPT ![l].pc = "lock"]
  /\ UNCHANGED <<main, pipes, mu, rets, progress, issued, shown>>
  /\ TrackerSame
  /\ LoopFrame

\* t.mu.Lock(), then the test of the destination prefix (155-160)
Lock(l) ==
  /\ At(l, "lock")
  /\ MuFree(mu)
  /\ mu' = l
  /\ issued' = issued + 1
  /\ loop' = [loop EXCEPT ![l].no = issued + 1,
                          ![l].pc = IF loop[l].rawLine.dest # NoDest
                                      THEN "dest_lookup" ELSE "percent"]
  /\ UNCHANGED <<main, pipes, rets, progress, shown>>
  /\ TrackerSame
  /\ LoopFrame

\* _, ok := t.seenDest[dest] (162)
DestLookup(l) ==
  /\ At(l, "dest_lookup")
  /\ LET seen == loop[l].rawLine.dest \in seenDest
     IN  loop' = [loop EXCEPT ![l].ok = seen,
                              ![l].pc = IF seen THEN "dest_return" ELSE "dest_insert"]
  /\ UNCHANGED <<main, pipes, mu, rets, progress, issued, shown>>
  /\ TrackerSame
  /\ LoopFrame

\* t.seenDest[dest] = struct{}{} (163)
DestInsert(l) ==
  /\ At(l, "dest_insert")
  /\ seenDest' = seenDest \cup {loop[l].rawLine.dest}
  /\ loop' = [loop EXCEPT ![l].pc = "dest_test"]
  /\ UNCHANGED <<main, pipes, mu, rets, progress, issued, shown, tracker, totalStages, stageIndex,
                 hasStage, stageProgress>>
  /\ LoopFrame

\* the reads of t.hasStage and t.stageIndex in the conditions (164, 168)
DestTest(l) ==
  /\ At(l, "dest_test")
  /\ loop' = [loop EXCEPT ![l].has = hasStage, ![l].idx = stageIndex,
                          ![l].pc = "dest_write"]
  /\ UNCHANGED <<main, pipes, mu, rets, progress, issued, shown>>
  /\ TrackerSame
  /\ LoopFrame

\* the assignments of the branch taken (165-170)
DestWrite(l) ==
  /\ At(l, "dest_write")
  /\ IF ~loop[l].has
       THEN /\ hasStage' = TRUE
            /\ stageIndex' = 0
            /\ stageProgress' = 0
       ELSE IF loop[l].idx < totalStages - 1
         THEN /\ stageIndex' = loop[l].idx + 1
              /\ stageProgress' = 0
              /\ UNCHANGED hasStage
         ELSE UNCHANGED <<hasStage, stageIndex, stageProgress>>
  /\ loop' = [loop EXCEPT ![l].pc = "dest_return"]
  /\ UNCHANGED <<main, pipes, mu, rets, progress, issued, shown, tracker, totalStages, seenDest>>
  /\ LoopFrame

\* v := float64(t.stageIndex) / float64(t.totalStages); return (172-173)
DestReturn(l) ==
  /\ At(l, "dest_return")
  /\ loop' = [loop EXCEPT
                ![l].ret = [v |-> stageIndex * Scale,
                            status |-> <<"Downloading (i/n)...", stageIndex + 1,
                                         totalStages>>,
                            ok |-> TRUE],
                ![l].pc = "unlock"]
  /\ UNCHANGED <<main, pipes, mu, rets, progress, issued, shown>>
  /\ TrackerSame
  /\ LoopFrame

\* p := parseProgress(rawLine); p >= 0 && t.hasStage; p < t.stageProgress (176-179)
Percent(l) ==
  /\ At(l, "percent")
  /\ LET q == parseProgress(loop[l].rawLine)
     IN  loop' = IF q >= 0 /\ hasStage
                   THEN [loop EXCEPT ![l].p = Max(q, stageProgress),
                                     ![l].pc = "percent_write"]
                   ELSE [loop EXCEPT ![l].pc = "markers"]
  /\ UNCHANGED <<main, pipes, mu, rets, progress, issued, shown>>
  /\ TrackerSame
  /\ LoopFrame

\* t.stageProgress = p; v := (float64(t.stageIndex) + p) / ...; return (180-182)
PercentWrite(l) ==
  /\ At(l, "percent_write")
  /\ stageProgress' = loop[l].p
  /\ loop' = [loop EXCEPT
                ![l].ret = [v |-> stageIndex * Scale + loop[l].p,
                            status |-> compactStatus(loop[l].rawLine),
                            ok |-> TRUE],
                ![l].pc = "unlock"]
  /\ UNCHANGED <<main, pipes, mu, rets, progress, issued, shown, tracker, totalStages, stageIndex,
                 hasStage, seenDest>>
  /\ LoopFrame

\* the "[Merger]" and "[EmbedSubtitle]" tests and the last return (185-195)
Markers(l) ==
  /\ At(l, "markers")
  /\ loop' = [loop EXCEPT
                ![l].ret =
                  IF loop[l].rawLine.merger
                    THEN [v |-> (totalStages * Scale) - (Scale \div 10),
                          status |-> <<"Merging formats...">>, ok |-> TRUE]
                  ELSE IF loop[l].rawLine.embed
                    THEN [v |-> (totalStages * Scale) - (Scale \div 20),
                          status |-> <<"Embedding subtitles...">>, ok |-> TRUE]
                  ELSE NoRet,
                ![l].pc = "unlock"]
  /\ UNCHANGED <<main, pipes, mu, rets, progress, issued, shown>>
  /\ TrackerSame
  /\ LoopFrame

\* the deferred t.mu.Unlock() (156)
Unlock(l) ==
  /\ At(l, "unlock")
  /\ mu' = "free"
  /\ loop' = [loop EXCEPT ![l].pc = "returned"]
  /\ UNCHANGED <<main, pipes, rets, progress, issued, shown>>
  /\ TrackerSame
  /\ LoopFrame

\* scanAndLog: if p, s, ok := onProgress(rawLine); ok { progress.SetValue(p) } (236-243)
SetValue(l) ==
  /\ At(l, "returned")
  /\ rets' = [rets EXCEPT ![l] = Append(rets[l], loop[l].ret)]
  /\ progress' = IF loop[l].ret.ok THEN loop[l].ret.v ELSE progress
  /\ loop' = [loop EXCEPT
                ![l] = [IdleLoop EXCEPT
                          !.rawLine = loop[l].rawLine,
                          !.ret = loop[l].ret,
                          !.set = IF loop[l].ret.ok THEN loop[l].ret.v ELSE NoValue]]
  /\ shown' = IF loop[l].ret.ok THEN loop[l].no ELSE shown
  /\ UNCHANGED <<main, pipes, mu, issued>>
  /\ TrackerSame
  /\ LoopFrame

\* wg.Wait() returns when both goroutines are done (882)
Wait ==
  /\ main = "scanning"
  /\ \A l \in Loops : loop[l].pc = "done"
  /\ main' = "waited"
  /\ UNCHANGED <<pipes, mu, loop, rets, progress, issued, shown>>
  /\ TrackerSame
  /\ LoopFrame

\* 1.0 on the scale of the session's fractions
Full == IF tracker = "live" THEN totalStages * Scale ELSE Scale

\* after wg.Wait: the exit status err of cmd.Wait decides between "Download
\* failed" and "Download complete" with progress.SetValue(1.0) (883-897)
Finish(err) ==
  /\ main = "waited"
  /\ main' = IF err THEN "failed" ELSE "complete"
  /\ progress' = IF err THEN progress ELSE Full
  /\ UNCHANGED <<pipes, mu, loop, rets, issued, shown>>
  /\ TrackerSame
  /\ LoopFrame

\* a session: the choices made in the window and what the subprocess writes,
\* taken from scripts
SessionStart(scripts) ==
  /\ app = AppIdle
  /\ name = "yt-dlp.exe"
  /\ release = ExeNew
  /\ published = StrayDigest
  /\ target = ExeOld
  /\ sibling = Absent
  /\ temps = NoTemps
  /\ preTarget = ExeOld
  /\ CallIdle
  /\ quality \in {"Audio Only", "1080p"}
  /\ hasSub \in BOOLEAN
  /\ playlist \in BOOLEAN
  /\ main = "start"
  /\ piped \in {f \in [Loops -> scripts] : Len(f["stdout"]) + Len(f["stderr"]) <= MaxFed}
  /\ pipes = piped
  /\ mu = "free"
  /\ loop = [l \in Loops |-> IdleLoop]
  /\ rets = [l \in Loops |-> <<>>]
  /\ progress = NoValue
  /\ issued = 0
  /\ shown = 0

LoopsStart == SessionStart(Scripts)

EndStart == SessionStart(EndScripts)

NextLoops ==
  \/ NewTracker
  \/ \E l \in Loops : Scan(l)
  \/ \E l \in Loops : Call(l)
  \/ \E l \in Loops : Lock(l)
  \/ \E l \in Loops : DestLookup(l)
  \/ \E l \in Loops : DestInsert(l)
  \/ \E l \in Loops : DestTest(l)
  \/ \E l \in Loops : DestWrite(l)
  \/ \E l \in Loops : DestReturn(l)
  \/ \E l \in Loops : Percent(l)
  \/ \E l \in Loops : PercentWrite(l)
  \/ \E l \in Loops : Markers(l)
  \/ \E l \in Loops : Unlock(l)
  \/ \E l \in Loops : SetValue(l)
  \/ Wait
  \/ \E err \in BOOLEAN : Finish(err)

InitLoops == LoopsStart /\ TrackerIdle /\ UpdateIdle /\ ResolverIdle

SpecLoops == InitLoops /\ [][NextLoops]_vars

(***************************************************************************)
(* The same session with the output of the end of a download.              *)
(***************************************************************************)
InitEnd == EndStart /\ TrackerIdle /\ UpdateIdle /\ ResolverIdle

SpecEnd == InitEnd /\ [][NextLoops]_vars

(***************************************************************************)
(* RunApp (part_002:1003-1222): the setup goroutine, the handler of the    *)
(* Download button and the goroutine each accepted tap starts.             *)
(***************************************************************************)
\* what checkMissingTools can return (617-630)
MissingSets == {<<>>, <<"yt-dlp.exe">>, <<"ffmpeg.exe">>, <<"yt-dlp.exe", "ffmpeg.exe">>}

AppFrame ==
  UNCHANGED <<trackerVars, envVars, fsVars, callVars, histVars, updVars, resolverVars,
              quality, hasSub, playlist, main, piped, pipes, mu, loop, rets,
              progress, issued, shown>>

SetupFailed(reason) == app' = [app EXCEPT !.setup = "failed", !.why = reason]

\* checkMissingTools (1112-1123)
SetupCheck ==
  /\ app.setup = "check"
  /\ \/ SetupFailed("check")
     \/ \E m \in MissingSets :
          app' = [app EXCEPT !.missing = m,
                             !.setup = IF m = <<>> THEN "paths" ELSE "ask"]
  /\ AppFrame

\* askDownloadRequiredTools (1126-1132)
SetupAsk ==
  /\ app.setup = "ask"
  /\ \/ SetupFailed("declined")
     \/ app' = [app EXCEPT !.setup = "ensure", !.i = 1]
  /\ AppFrame

\* one round of the loop over the missing tools (1135-1157)
SetupEnsure ==
  /\ app.setup = "ensure"
  /\ \/ SetupFailed("ensure")
     \/ app' = [app EXCEPT
                  !.fresh = app.fresh \/ app.missing[app.i] = "yt-dlp.exe",
                  !.i = app.i + 1,
                  !.setup = IF app.i = Len(app.missing) THEN "paths" ELSE "ensure"]
  /\ AppFrame

\* BinaryPath of both tools and the prepared paths (1159-1172)
SetupPaths ==
  /\ app.setup = "paths"
  /\ \/ SetupFailed("path")
     \/ app' = [app EXCEPT !.preparedYTDLPPath = TRUE,
                           !.preparedFFmpegPath = TRUE,
                           !.setup = IF app.fresh THEN "store" ELSE "update"]
  /\ AppFrame

\* TryUpdateYTDLP, whatever it reports (1179-1214)
SetupUpdate ==
  /\ app.setup = "update"
  /\ app' = [app EXCEPT !.setup = "store"]
  /\ AppFrame

\* toolsReady.Store(true) (1216)
SetupStore ==
  /\ app.setup = "store"
  /\ app' = [app EXCEPT !.toolsReady = TRUE, !.setup = "enable"]
  /\ AppFrame

\* btn.Enable() (1217-1221)
SetupEnable ==
  /\ app.setup = "enable"
  /\ app' = [app EXCEPT !.btn = TRUE, !.setup = "done"]
  /\ AppFrame

\* what the handler finds: no URL, a default folder it cannot create, or
\* nothing in the way
Finds == {"missing_url", "mkdir_failed", "go"}

\* a faulty variant: the handler leaves the button enabled
TapLeavesEnabled(found) ==
  /\ app.btn
  /\ app.taps < MaxTaps
  /\ app' = IF ~app.toolsReady \/ found # "go"
              THEN [app EXCEPT !.taps = app.taps + 1]
              ELSE [app EXCEPT !.taps = app.taps + 1,
                               !.sess[app.taps + 1] = "begin"]
  /\ AppFrame

\* the handler of the Download button (1007-1036); the widget runs it only
\* while the button is enabled
Tap(found) ==
  /\ app.btn
  /\ app.taps < MaxTaps
  /\ app' = IF ~app.toolsReady \/ found # "go"
              THEN [app EXCEPT !.taps = app.taps + 1]
              ELSE [app EXCEPT !.taps = app.taps + 1,
                               !.btn = FALSE,
                               !.sess[app.taps + 1] = "begin"]
  /\ AppFrame

\* the goroutine returns: the deferred btn.Enable() (1038)
SessReturns(k) == app' = [app EXCEPT !.sess[k] = "ended", !.btn = TRUE]

\* the goroutine reads the prepared paths (1039-1045)
SessBegin(k) ==
  /\ app.sess[k] = "begin"
  /\ IF app.preparedYTDLPPath /\ app.preparedFFmpegPath
       THEN app' = [app EXCEPT !.sess[k] = "subs"]
       ELSE SessReturns(k)
  /\ AppFrame

\* the subtitle questions: the user aborts, or runYTDLP is called (1049-1095)
SessSubs(k) ==
  /\ app.sess[k] = "subs"
  /\ \/ SessReturns(k)
     \/ app' = [app EXCEPT !.sess[k] = "run"]
  /\ AppFrame

\* runYTDLP returns before it has a tracker (760-864)
RunFail(k) ==
  /\ app.sess[k] = "run"
  /\ SessReturns(k)
  /\ AppFrame

\* runYTDLP creates its tracker (866)
RunTracker(k) ==
  /\ app.sess[k] = "run"
  /\ app' = [app EXCEPT !.sess[k] = "scan", !.made = app.made + 1,
                        !.trk[k] = app.made + 1]
  /\ AppFrame

\* runYTDLP returns (883-898)
SessEnd(k) ==
  /\ app.sess[k] = "scan"
  /\ SessReturns(k)
  /\ AppFrame

NextApp ==
  \/ SetupCheck
  \/ SetupAsk
  \/ SetupEnsure
  \/ SetupPaths
  \/ SetupUpdate
  \/ SetupStore
  \/ SetupEnable
  \/ \E found \in Finds : Tap(found)
  \/ \E k \in 1..MaxTaps : SessBegin(k)
  \/ \E k \in 1..MaxTaps : SessSubs(k)
  \/ \E k \in 1..MaxTaps : RunFail(k)
  \/ \E k \in 1..MaxTaps : RunTracker(k)
  \/ \E k \in 1..MaxTaps : SessEnd(k)

AppStart ==
  /\ name = "yt-dlp.exe"
  /\ release = ExeNew
  /\ published = StrayDigest
  /\ target = ExeOld
  /\ sibling = Absent
  /\ temps = NoTemps
  /\ preTarget = ExeOld
  /\ CallIdle

InitApp == AppStart /\ TrackerIdle /\ UpdateIdle /\ ResolverIdle /\ LoopsIdle

SpecApp == InitApp /\ [][NextApp]_vars

(***************************************************************************)
(* Properties                                                              *)
(***************************************************************************)
HasEvent(phase) == \E i \in DOMAIN events : events[i].Phase = phase

Count(phase) == Cardinality({i \in DOMAIN events : events[i].Phase = phase})

AllTimeouts == errs # <<>> /\ \A i \in DOMAIN errs : errs[i] = "timeout"

\* the temp files this call created that exist
Leftover == made \cap DOMAIN temps

\* a file that was written in full
Complete(content) == content \in Payloads \cup {ExeOld}

\* C1 (Integrity): when the downloaded payload's SHA-256 differs from the resolved
\* digest, replaceFileAtomic is never invoked, the target stays as it was before
\* the call, and the call returns an error.
C1_Integrity ==
  (dlReturn = "ok" /\ computeFileSHA256(release) # expectedSHA) =>
    /\ replaced = 0
    /\ target = preTarget
    /\ pc \in {"verify", "idle"}
    /\ (pc = "idle" => result.st = "err")

C1_Witness ==
  /\ pc = "idle"
  /\ dlReturn = "ok"
  /\ computeFileSHA256(release) # expectedSHA
  /\ result = Failed("mismatch")
  /\ name = "ffmpeg.exe"
  /\ target = Absent

\* C2 (Atomic install): at every step of replaceFileAtomic and for every outcome
\* of every step, dst holds exactly its prior content (or is absent as before) or
\* exactly the complete new content; it holds the new content once the call has
\* succeeded and the prior content until the last rename and after any failure.
C2_AtomicInstall ==
  /\ target \in {preTarget, installing}
  /\ (pc \in InstallPcs => target = preTarget)
  /\ (pc = "idle" /\ result.st = "err" => target = preTarget)
  /\ (pc = "idle" /\ result.st = "ok" => target = installing)

C2_Witness ==
  /\ pc = "idle"
  /\ result = Ok
  /\ preTarget = ExeOld
  /\ installing = ExeNew
  /\ target = ExeNew

\* C3 (No partial write at the target): during any ensure call, with embedded
\* bytes or without, the target is its prior state or the complete new file, and
\* no ensure call returns as installed a path holding an incomplete file.
C3_NeverPartial ==
  /\ target \in {preTarget, IF data # <<>> THEN data ELSE installing}
  /\ (pc = "idle" /\ result.st = "ok" => Complete(target))

\* C4 (Idempotence): a call that finds the target existing returns it with no
\* error, issues no network request, emits no progress event and leaves the
\* target as it was, whether or not embedded bytes were supplied.
C4_Idempotent ==
  (calls > 0 /\ preTarget \notin {Absent, NoAccess}) =>
    /\ pc = "idle"
    /\ result = Ok
    /\ netLog = <<>>
    /\ events = <<>>
    /\ target = preTarget

C4_Witness ==
  /\ calls = 2
  /\ preTarget = ExeNew
  /\ data = ExeNew
  /\ pc = "idle"
  /\ result = Ok

\* C5 (Monotonicity): of two successive calls of update that report
\* updated = true, the later one never returns the smaller fraction.
C5_Monotone == (prevShown # NoValue) => prevShown <= lastShown

\* C6 (Unit interval): the fraction update returns lies in [0, 1], whatever
\* decimal the percentage line carries.
C6_UnitInterval ==
  tracker = "live" => (0 <= ret.v /\ ret.v <= totalStages * Scale)

\* C7 (Retry bound): when every attempt fails with a timeout and the context is
\* never canceled, downloadToTemp makes exactly maxDownloadAttempts attempts and
\* maxDownloadAttempts - 1 backoff waits, waits after no attempt once the ceiling
\* is reached, and returns the error of the last attempt.
C7_RetryBound ==
  (~ctxCanceled /\ AllTimeouts) =>
    /\ Len(errs) <= maxDownloadAttempts
    /\ waits <= maxDownloadAttempts - 1
    /\ (Len(errs) = maxDownloadAttempts =>
          waits = maxDownloadAttempts - 1 /\ pc \in {"dl_failed", "idle"})
    /\ (dlReturn = "err" =>
          /\ Len(errs) = maxDownloadAttempts
          /\ attempt = maxDownloadAttempts
          /\ waits = maxDownloadAttempts - 1
          /\ result = Failed("timeout"))

C7_Witness ==
  /\ dlReturn = "err"
  /\ ~ctxCanceled
  /\ AllTimeouts
  /\ Len(errs) = maxDownloadAttempts
  /\ Count("retry") = maxDownloadAttempts - 1

\* C8 (Cancellation): once the context is canceled during downloadToTemp no
\* further attempt starts, and the call returns an error, leaves no temp file
\* and has emitted a canceled event.
C8_Cancellation ==
  canceledIn.at # "none" =>
    /\ attempt = canceledIn.attempt
    /\ (dlReturn # "none" =>
          /\ dlReturn = "err"
          /\ Leftover = {}
          /\ HasEvent("canceled"))

\* C9 (Status is fatal): an attempt is repeated only after a timeout or a
\* temporary network error; an attempt that receives a non-success status is
\* the last one, with no retry event and no backoff wait after it, and
\* downloadToTemp returns an error (that of the attempt, unless the context was
\* canceled meanwhile).
C9_StatusNotRetried ==
  /\ \A i \in 1..(Len(errs) - 1) : errs[i] \in {"timeout", "temporary"}
  /\ Count("retry") = waits
  /\ (errs # <<>> /\ errs[Len(errs)] = "status") =>
       /\ pc \in {"dl_failed", "idle"}
       /\ attempt = Len(errs)
       /\ waits = Len(errs) - 1
       /\ (pc = "idle" =>
             /\ dlReturn = "err"
             /\ result.st = "err"
             /\ (~ctxCanceled => result = Failed("status")))

C9_Witness ==
  /\ pc = "idle"
  /\ errs = <<"status">>
  /\ dlReturn = "err"
  /\ result = Failed("status")
  /\ waits = 0
  /\ ~HasEvent("retry")

\* C10 (Temp files of a fetch): when downloadToTemp returns an error none of the
\* temp files its attempts created exists; when it returns a path, that file is
\* the only one of them that exists and it holds the whole body.
C10_TempFiles ==
  /\ (dlReturn = "err" => Leftover = {})
  /\ (dlReturn = "ok" => Leftover = {tmp} /\ temps[tmp] = release)

C10_Witness ==
  /\ dlReturn = "ok"
  /\ Count("start") = maxDownloadAttempts
  /\ Len(errs) = maxDownloadAttempts - 1
  /\ Len(release) > ChunkSize
  /\ temps[tmp] = release

\* C11 (No temp artifact after ensure): when an ensure call on the download
\* path has returned, with success or with any error, none of the temp files
\* it created (the downloaded payload, the extracted archive entry) exists.
C11_NoTempArtifacts ==
  (calls > 0 /\ pc = "idle" /\ result.st \in {"ok", "err"}) => Leftover = {}

\* C12 (Installer failure handling): when replaceFileAtomic returns an error,
\* whichever step failed, the staging sibling does not exist and the target
\* holds what it held before the call.
C12_FailureCleansUp ==
  (pc = "idle" /\ result.st = "err") => (sibling = Absent /\ target = preTarget)

HasSaid(msg) == \E i \in DOMAIN said : said[i] = msg

Requested(kind) == \E i \in DOMAIN netLog : netLog[i] = kind

Stripped(v) ==
  LET t == TrimSpace(v)
  IN  IF t # <<>> /\ Head(t) = "v" THEN Tail(t) ELSE t

\* both versions were read and, stripped, are non-empty and unequal
VersionsDiffer ==
  /\ versionOut # ExecFails
  /\ tagName # ApiFails
  /\ Stripped(versionOut) # <<>>
  /\ Stripped(tagName) # <<>>
  /\ Stripped(versionOut) # Stripped(tagName)

\* C14 (Update decision): the update check goes on to download exactly when the
\* two version strings, trimmed and stripped of a leading "v", are non-empty
\* and unequal; when they are equal it makes no checksum or binary request,
\* leaves the target alone and returns no error; a version that cannot be read
\* is told to the sink and the target is left alone.
C14_UpdateDecision ==
  /\ HasSaid("updating") => VersionsDiffer
  /\ (Requested("checksum") \/ Requested("binary") \/ opened) => HasSaid("updating")
  /\ (pc = "idle" /\ calls > 0 /\ VersionsDiffer /\ result.err \notin {"api", "no_tag"})
       => HasSaid("updating")
  /\ HasSaid("up_to_date") =>
       /\ ~VersionsDiffer
       /\ pc = "idle"
       /\ result = Ok
       /\ netLog = <<"api">>
       /\ events = <<>>
       /\ target = preTarget
  /\ (pc = "idle" /\ result.err = "exec") =>
       (said = <<"no_local_version">> /\ target = preTarget /\ netLog = <<>>)
  /\ (pc = "idle" /\ result.err \in {"api", "no_tag"}) =>
       (said = <<"no_latest_version">> /\ target = preTarget /\ netLog = <<"api">>)

C14_Witness ==
  /\ HasSaid("up_to_date")
  /\ versionOut = <<"2", "4", "LF">>
  /\ tagName = <<"v", "2", "4">>
  /\ result = Ok

\* the digest override is set to something that is not blank
OverrideSet == \E i \in DOMAIN envDigest : envDigest[i] \notin Space

\* 64 characters, each of 0-9 a-f
IsShape(d) == Len(d) = 64 /\ \A i \in DOMAIN d : d[i] \in HexDigits

\* the override, trimmed and in lower case
Canon(v) == Lower(TrimSpace(v))

\* C15 (Resolver precedence): with a digest override set, resolve returns
\* without fetching any manifest: the override normalised when it is well
\* formed, an error when it is not, whatever manifest-URL override or default
\* manifest is there.
C15_OverrideFirst ==
  (resolved # NoResolved /\ OverrideSet) =>
    /\ fetched = <<>>
    /\ pc = "idle"
    /\ IF IsShape(Canon(envDigest))
         THEN resolved = [sum |-> Canon(envDigest), err |-> "nil"]
         ELSE resolved.err # "nil" /\ resolved.sum = <<>>

C15_Witness ==
  /\ name = "ffmpeg.exe"
  /\ envDigest = Take(Hex64("a"), 63) \o <<"g">>
  /\ envManifestURL
  /\ served["override"] = "named"
  /\ resolved.err = "digest"
  /\ fetched = <<>>

\* C16 (Manifest-URL override replaces the defaults): with the manifest-URL
\* override set and no digest override, only the override URL is requested,
\* and resolution fails when it cannot be fetched or yields no digest.
C16_ManifestOverrideOnly ==
  (name = "ffmpeg.exe" /\ envManifestURL /\ ~OverrideSet) =>
    /\ \A i \in DOMAIN fetched : fetched[i] = "override"
    /\ (resolved # NoResolved /\ served["override"] \in {"fail", "unnamed"})
         => resolved.err # "nil"

\* C17 (Digest shape): every digest resolve returns without error is 64
\* characters of 0-9 a-f; an override that, trimmed and lower-cased, is not of
\* that shape makes resolve fail.
C17_DigestShape ==
  /\ resolved.err = "nil" => IsShape(resolved.sum)
  /\ (resolved # NoResolved /\ OverrideSet /\ ~IsShape(Canon(envDigest)))
       => resolved.err # "nil"

C17_Witness ==
  /\ resolved.err = "nil"
  /\ fetched # <<>>
  /\ DigestOf(fetched[Len(fetched)]) = Hex64("C")
  /\ resolved.sum = Hex64("c")

\* line i of the manifest names the wanted file: it has one of the three
\* shapes and its file name has the wanted base name, letter case aside
Named(i) ==
  /\ text[i].shape \in {"two_space", "star", "bsd"}
  /\ Lower(Base(text[i].file)) = Lower(Base(TrimSpace(targetName)))

NonEmptyLines == {i \in DOMAIN text : text[i].shape # "empty"}

\* C18 (Lookup by name): in a manifest of two or more non-empty lines the
\* digest returned is that of the first line naming the wanted file by base
\* name, and no digest is returned when no line names it.
C18_LookupByName ==
  (parsed # NoResolved /\ Cardinality(NonEmptyLines) >= 2) =>
    IF \E i \in DOMAIN text : Named(i)
      THEN LET k == CHOOSE i \in DOMAIN text :
                      Named(i) /\ \A j \in 1..(i - 1) : ~Named(j)
           IN  parsed = [sum |-> Lower(text[k].digest), err |-> "nil"]
      ELSE parsed.err # "nil"

\* C19 (Single-candidate fallback): when no line names the wanted file, a
\* digest is returned exactly when the manifest has one non-empty line and
\* that line carries a digest.
C19_SingleLineFallback ==
  (parsed # NoResolved /\ ~\E i \in DOMAIN text : Named(i)) =>
    (parsed.err = "nil" <=>
       /\ Cardinality(NonEmptyLines) = 1
       /\ \A i \in NonEmptyLines : text[i].digest # <<>>)

\* a manifest location that can be fetched and gives a digest for the file
Yields(loc) == served[loc] \in {"named", "single"}

\* C20 (Candidates in order): the manifest candidates are requested in list
\* order; a candidate that cannot be fetched or parsed is passed over; the
\* digest of the first candidate that yields one is the result and no later
\* candidate is requested; resolve fails exactly when every candidate failed.
C20_CandidatesInOrder ==
  (name = "ffmpeg.exe" /\ ~OverrideSet) =>
    LET cands == CandidatesFor(envManifestURL, srcURL)
    IN  /\ Len(fetched) <= Len(cands)
        /\ fetched = SubSeq(cands, 1, Len(fetched))
        /\ \A i \in 1..(Len(fetched) - 1) : ~Yields(fetched[i])
        /\ resolved # NoResolved =>
             IF \E i \in DOMAIN cands : Yields(cands[i])
               THEN /\ Yields(fetched[Len(fetched)])
                    /\ resolved = [sum |-> Lower(DigestOf(fetched[Len(fetched)])),
                                   err |-> "nil"]
               ELSE /\ resolved.err # "nil"
                    /\ fetched = cands

C20_Witness ==
  /\ name = "ffmpeg.exe"
  /\ ~OverrideSet
  /\ fetched = <<"override", "btbn_checksums", "src.sha256">>
  /\ served["override"] = "fail"
  /\ served["btbn_checksums"] = "unnamed"
  /\ served["src.sha256"] = "single"
  /\ served["src.sha256.txt"] = "named"
  /\ resolved = [sum |-> Hex64("c"), err |-> "nil"]

\* an archive entry whose path ends with the base name ffmpeg.exe, letter
\* case aside, with or without a directory before it
EndsWithFFmpeg(e) == ToLower(e.Name[Len(e.Name)]) = "ffmpeg.exe"

\* an entry with a bin segment right before the base name
UnderBin(e) == Len(e.Name) >= 2 /\ ToLower(e.Name[Len(e.Name) - 1]) = "bin"

\* C21 (Archive entry selection): an entry matches exactly when its path ends
\* with ffmpeg.exe, an entry at the archive root included; a match under bin/
\* is selected when there is one, the first match otherwise; extraction fails
\* with "not found" only when no entry matches.
C21_EntrySelection ==
  LET files == ZipEntries(release)
      matches == {i \in DOMAIN files : EndsWithFFmpeg(files[i])}
      bins == {i \in matches : UnderBin(files[i])}
  IN  /\ (calls > 0 /\ result = Failed("not_found")) => matches = {}
      /\ (pc = "extract_sniff" /\ curTmp \in DOMAIN temps) =>
           /\ matches # {}
           /\ IF bins # {}
                THEN \E i \in bins : temps[curTmp] = files[i].bytes
                ELSE \E i \in matches :
                       /\ \A j \in matches : i <= j
                       /\ temps[curTmp] = files[i].bytes

\* a content that starts with the two bytes of a Windows executable
IsExecutable(c) == Len(c) >= 2 /\ c[1] = "M" /\ c[2] = "Z"

\* C22 (Executable-only install): on the download path the file handed to
\* replaceFileAtomic is an executable by its leading bytes, whether it is the
\* payload or the entry extracted from it; a payload or entry that is not one
\* ends the call with a format error and the target as it was.
C22_ExecutableOnly ==
  /\ (pc \in InstallPcs /\ caller \in {"direct", "extract"}) =>
       /\ IsExecutable(installing)
       /\ pc = "r_remove" => (src \in DOMAIN temps /\ installing = temps[src])
  /\ (caller \in {"direct", "extract"} /\ target # preTarget) =>
       IsExecutable(target)
  /\ (pc = "idle" /\ result.err \in {"not_exe", "unsupported"}) =>
       /\ result.st = "err"
       /\ target = preTarget
       /\ ~IsExecutable(release) \/ name = "ffmpeg.exe"
  /\ (pc = "idle" /\ result = Ok /\ caller \in {"direct", "extract"}) =>
       IsExecutable(target)

C22_Witness ==
  /\ pc = "idle"
  /\ name = "ffmpeg.exe"
  /\ release = ZipFake
  /\ result = Failed("not_exe")
  /\ HasEvent("extract_done")
  /\ target = preTarget
  /\ target = Absent

\* the format a payload has by its leading bytes alone
BranchOf(c) ==
  IF IsExecutable(c) THEN "direct"
  ELSE IF Len(c) >= 4 /\ SubSeq(c, 1, 4) = <<"P", "K", "03", "04">> THEN "extract"
  ELSE "unsupported"

\* the name of the source URL ends in .exe
NamedExe ==
  LET n == Len(srcURL.path)
  IN  n >= 4 /\ SubSeq(srcURL.path, n - 3, n) = <<".", "e", "x", "e">>

\* C23 (Format independence): in an ffmpeg run the branch taken after
\* verification (install directly, extract from the archive, reject as
\* unsupported) and the bytes installed are those the payload's leading bytes
\* decide, whatever format the name in the source URL suggests.
C23_FormatIndependence ==
  name = "ffmpeg.exe" =>
    /\ (pc \in InstallPcs /\ caller = "direct") =>
         (BranchOf(release) = "direct" /\ installing = release)
    /\ (pc \in {"extract", "extract_sniff"} \/ (pc \in InstallPcs /\ caller = "extract")) =>
         BranchOf(release) = "extract"
    /\ (pc = "idle" /\ result = Failed("unsupported")) =>
         BranchOf(release) = "unsupported"
    /\ (pc = "idle" /\ result = Ok /\ caller = "direct") => target = release
    /\ (pc = "idle" /\ result = Ok /\ caller = "extract") =>
         \E i \in DOMAIN ZipEntries(release) : target = ZipEntries(release)[i].bytes

C23_Witness ==
  /\ name = "ffmpeg.exe"
  /\ NamedExe
  /\ release = ZipBin
  /\ pc = "idle"
  /\ result = Ok
  /\ caller = "extract"
  /\ target = ExeNew

\* the download of this run's payload matches the digest resolved in it
VerifiedInRun ==
  tmp \in DOMAIN temps /\ computeFileSHA256(temps[tmp]) = expectedSHA

\* one step of a run on the download path keeps the order of the stages
StepInOrder ==
  /\ (pc' \in FetchPcs /\ pc \notin FetchPcs) =>
       (pc = "resolve" /\ expectedSHA' = published /\ result' = result)
  /\ (netLog' # netLog /\ netLog' # <<>> /\ netLog'[Len(netLog')] = "binary") => pc = "dl_get"
  /\ (pc' = "verify" /\ pc # "verify") => pc \in FetchPcs
  /\ (pc' = "sniff_exe" /\ pc # "sniff_exe") => (pc = "verify" /\ VerifiedInRun)
  /\ (pc' = "sniff_zip" /\ pc # "sniff_zip") => pc = "sniff_exe"
  /\ (pc' = "extract" /\ pc # "extract") => pc = "sniff_zip"
  /\ (pc' = "extract_sniff" /\ pc # "extract_sniff") => pc = "extract"
  /\ (pc' \in InstallPcs /\ pc \notin InstallPcs) =>
       (pc \in {"sniff_exe", "extract_sniff"} /\ VerifiedInRun)

\* C28 (Provisioning order): a run on the download path goes through resolve
\* digest, download, verify digest, classify, (extract and re-classify,)
\* install in this order; the binary is requested only after the digest was
\* resolved, and install is reached only after verification succeeded in the
\* same run.
C28_ProvisioningOrder ==
  /\ []((pc \in InstallPcs /\ caller = "direct") =>
          computeFileSHA256(installing) = expectedSHA)
  /\ []((pc \in InstallPcs /\ caller = "extract") => VerifiedInRun)
  /\ [][StepInOrder]_vars

C28_Witness ==
  /\ pc = "r_commit"
  /\ caller = "extract"
  /\ Requested("binary")
  /\ Requested("checksum")
  /\ HasEvent("extract_start")
  /\ VerifiedInRun

\* the step is an update call for a destination marker (its status tells)
DestStep == ret'.ok /\ ret'.status[1] = "Downloading (i/n)..." /\ tracker = "live"

\* one update call for a destination marker of a path not seen before
FreshDestStep ==
  (DestStep /\ seenDest' # seenDest) =>
    /\ stageProgress' = 0
    /\ stageIndex' = IF ~hasStage THEN 0 ELSE Min(stageIndex + 1, totalStages - 1)
    /\ hasStage'
    /\ ret'.v = stageIndex' * Scale + stageProgress'

\* C29 (Destination transition): after a destination marker for a path not
\* seen before, the stored fraction is 0 and the stage index is 0 when no
\* stage had begun, otherwise the previous index plus one capped at
\* totalStages - 1, also at the last index; the fraction returned is
\* (stageIndex + stored fraction) / totalStages.
C29_DestinationTransition == [][FreshDestStep]_vars

\* one update call for a destination marker of a path already seen
SeenDestStep ==
  (DestStep /\ seenDest' = seenDest /\ lastShown' # NoValue /\ vars' # vars) =>
    /\ UNCHANGED <<stageIndex, hasStage, stageProgress, seenDest, totalStages>>
    /\ lastShown # NoValue => ret'.v >= lastShown

\* C30 (Destination idempotence): a destination marker for a path already
\* seen leaves stageIndex, hasStage, stageProgress and seenDest as they were
\* and reports no fraction below the one last reported.
C30_DestinationIdempotent == [][SeenDestStep]_vars

\* C24 (Stage accounting): a session that is not a playlist has a tracker
\* with totalStages 2 for a quality other than audio-only without subtitles,
\* 3 with subtitles, 1 for audio-only without subtitles and 2 with them;
\* totalStages is at least 1 and no update call changes it.
C24_StageAccounting ==
  (main # "start" /\ ~playlist) =>
    /\ tracker = "live"
    /\ totalStages >= 1
    /\ totalStages = CASE quality # "Audio Only" /\ ~hasSub -> 2
                       [] quality # "Audio Only" /\ hasSub -> 3
                       [] quality = "Audio Only" /\ ~hasSub -> 1
                       [] OTHER -> 2

C24_Witness ==
  /\ main = "waited"
  /\ ~playlist
  /\ quality = "Audio Only"
  /\ hasSub
  /\ totalStages = 2
  /\ Len(rets["stdout"]) = 2
  /\ Len(rets["stderr"]) = 1
  /\ stageIndex = 1

\* the session of the scenario: two stages, the three lines on stdout
ScenarioFed ==
  /\ main = "waited"
  /\ ~playlist
  /\ totalStages = 2
  /\ piped = [l \in Loops |->
                IF l = "stdout"
                  THEN <<DestLine("a.mp4"), PctLine(<<42, 0>>), MergerLine>>
                  ELSE <<>>]

\* the fractions returned to the stdout loop, as numerators over
\* totalStages * Scale, when every call returned updated = true
Fractions ==
  IF \A i \in DOMAIN rets["stdout"] : rets["stdout"][i].ok
    THEN [i \in DOMAIN rets["stdout"] |-> rets["stdout"][i].v]
    ELSE <<NoValue>>

\* C25 (Scenario), as stated: the three lines give 0.0, 0.21 and 0.45, each
\* with updated = true.
C25_ScenarioAsStated ==
  ScenarioFed =>
    Fractions = <<0, (21 * 2 * Scale) \div 100, (45 * 2 * Scale) \div 100>>

\* C25 (Scenario), amended: the three lines give 0.0, 0.21 and 0.95, each
\* with updated = true.
C25_Scenario ==
  ScenarioFed =>
    Fractions = <<0, (21 * 2 * Scale) \div 100, (95 * 2 * Scale) \div 100>>

C25_Witness ==
  /\ ScenarioFed
  /\ Len(rets["stdout"]) = 3
  /\ stageProgress = (42 * Scale) \div 100
  /\ progress = (95 * 2 * Scale) \div 100

\* the fields of the tracker that update reads and writes
TrackerFields ==
  [stageIndex |-> stageIndex, hasStage |-> hasStage,
   stageProgress |-> stageProgress, seenDest |-> seenDest]

FreshFields ==
  [stageIndex |-> 0, hasStage |-> FALSE, stageProgress |-> 0, seenDest |-> {}]

\* one call of update run alone on the fields t: the fields after it and
\* what it returns
updateAlone(t, total, line) ==
  IF line.dest # NoDest
    THEN LET seen == [t EXCEPT !.seenDest = t.seenDest \cup {line.dest}]
             t1 == IF line.dest \in t.seenDest THEN t
                   ELSE IF ~t.hasStage
                     THEN [seen EXCEPT !.hasStage = TRUE, !.stageIndex = 0,
                                       !.stageProgress = 0]
                   ELSE IF t.stageIndex < total - 1
                     THEN [seen EXCEPT !.stageIndex = t.stageIndex + 1,
                                       !.stageProgress = 0]
                   ELSE seen
         IN  [t |-> t1,
              r |-> [v |-> t1.stageIndex * Scale,
                     status |-> <<"Downloading (i/n)...", t1.stageIndex + 1, total>>,
                     ok |-> TRUE]]
  ELSE IF parseProgress(line) >= 0 /\ t.hasStage
    THEN LET p == Max(parseProgress(line), t.stageProgress)
         IN  [t |-> [t EXCEPT !.stageProgress = p],
              r |-> [v |-> t.stageIndex * Scale + p, status |-> compactStatus(line),
                     ok |-> TRUE]]
  ELSE IF line.merger
    THEN [t |-> t, r |-> [v |-> (total * Scale) - (Scale \div 10),
                          status |-> <<"Merging formats...">>, ok |-> TRUE]]
  ELSE IF line.embed
    THEN [t |-> t, r |-> [v |-> (total * Scale) - (Scale \div 20),
                          status |-> <<"Embedding subtitles...">>, ok |-> TRUE]]
  ELSE [t |-> t, r |-> NoRet]

\* the calls of both loops run one after the other in the order given (a
\* sequence of loop names): the fields at the end and what each loop's calls
\* returned
RECURSIVE Sequential(_, _, _, _)
Sequential(order, t, taken, out) ==
  IF order = <<>> THEN [t |-> t, rets |-> out]
  ELSE LET l == Head(order)
           u == updateAlone(t, totalStages, piped[l][taken[l] + 1])
       IN  Sequential(Tail(order), u.t, [taken EXCEPT ![l] = taken[l] + 1],
                      [out EXCEPT ![l] = Append(out[l], u.r)])

\* the orders of all calls that keep each loop's own order
Orders ==
  LET n == Len(piped["stdout"]) + Len(piped["stderr"])
  IN  {o \in [1..n -> Loops] :
         Cardinality({i \in 1..n : o[i] = "stdout"}) = Len(piped["stdout"])}

\* the positions of update between Lock and Unlock
LockedPcs == {"dest_lookup", "dest_insert", "dest_test", "dest_write", "dest_return",
              "percent", "percent_write", "markers", "unlock"}

\* C26 (Tracker linearizability): a loop reads and writes the tracker's
\* fields only while it holds the lock, so that when both loops are done the
\* fields and the values returned to each loop are those of the same calls
\* run one after the other in some order that keeps each loop's own order.
C26_Linearizable ==
  /\ \A l \in Loops : loop[l].pc \in LockedPcs => mu = l
  /\ (main = "waited" /\ tracker = "live") =>
       \E o \in Orders :
         LET s == Sequential(o, FreshFields, [l \in Loops |-> 0],
                             [l \in Loops |-> <<>>])
         IN  s.t = TrackerFields /\ s.rets = rets

C26_Witness ==
  /\ loop["stdout"].pc = "dest_write"
  /\ mu = "stdout"
  /\ loop["stderr"].pc = "lock"
  /\ loop["stderr"].rawLine = DestLine("a.m4a")
  /\ totalStages = 2

\* C27 (Playlist passthrough): a playlist session has no tracker, and a read
\* loop that has handled a line carrying a percentage p has set the progress
\* value to p/100.
C27_PlaylistPassthrough ==
  (playlist /\ main # "start") =>
    /\ tracker = "nil"
    /\ \A l \in Loops :
         (loop[l].pc \in {"scan", "done"} /\ loop[l].rawLine.pct # NoPct) =>
           loop[l].set = parseProgress(loop[l].rawLine)


(***************************************************************************)
(* The tracker, one call at a time: lastLine' is the line the step's        *)
(* update call is given.                                                   *)
(***************************************************************************)
\* a line that carries a percentage and is not a destination line
PercentLine(l) == l.dest = NoDest /\ l.pct # NoPct

\* the decimal of a percentage line over 100, in thousandths: 42.0 is 420
Hundredths(l) == l.pct[1] * 10 + l.pct[2]

PercentStep ==
  (tracker = "live" /\ hasStage /\ PercentLine(lastLine')) =>
    /\ stageProgress' = IF Hundredths(lastLine') > stageProgress
                          THEN Hundredths(lastLine') ELSE stageProgress
    /\ stageIndex' = stageIndex
    /\ seenDest' = seenDest
    /\ ret'.ok
    /\ ret'.v = stageIndex * Scale + stageProgress'

NoAdvanceStep ==
  (stageIndex' = stageIndex /\ hasStage' = hasStage) => stageProgress' >= stageProgress

\* C31: a percentage line received while a stage is active stores the larger
\* of the previous fraction and the parsed one, leaves stageIndex and seenDest
\* alone and returns (stageIndex + stored fraction) / totalStages; while the
\* stage does not advance the stored fraction never decreases.
C31_PercentClamp == [][PercentStep /\ NoAdvanceStep]_vars

\* a lower percentage arrived after a higher one and the higher one was kept
C31_Witness ==
  /\ tracker = "live" /\ PercentLine(lastLine) /\ Hundredths(lastLine) = 420
  /\ stageIndex = 1 /\ stageProgress = 995
  /\ ret.ok /\ ret.v = Scale + 995

\* a line whose first recognised mark is "[Merger]"
MergeLine(l) == l.merger /\ l.dest = NoDest /\ l.pct = NoPct

\* a line whose first recognised mark is "[EmbedSubtitle]"
EmbedLine(l) == l.embed /\ ~l.merger /\ l.dest = NoDest /\ l.pct = NoPct

StageKept ==
  /\ stageIndex' = stageIndex
  /\ hasStage' = hasStage
  /\ stageProgress' = stageProgress
  /\ seenDest' = seenDest

MarkerStep ==
  /\ (tracker = "live" /\ MergeLine(lastLine')) =>
       /\ ret'.ok
       /\ 10 * ret'.v = 10 * totalStages * Scale - Scale
       /\ StageKept
  /\ (tracker = "live" /\ EmbedLine(lastLine')) =>
       /\ ret'.ok
       /\ 20 * ret'.v = 20 * totalStages * Scale - Scale
       /\ StageKept

\* C32: a merge marker line returns (totalStages - 0.1) / totalStages and a
\* subtitle-embed marker line (totalStages - 0.05) / totalStages, each with
\* updated = true, before and after a stage has begun, and neither changes
\* stageIndex, hasStage, stageProgress or seenDest.
C32_SyntheticMarkers == [][MarkerStep]_vars

\* a merge marker arrived in the middle of the second stage of two
C32_Witness ==
  /\ tracker = "live" /\ MergeLine(lastLine)
  /\ totalStages = 2 /\ stageIndex = 1 /\ stageProgress = 420
  /\ ret.ok /\ ret.v = 2 * Scale - 100

\* a line update has nothing to report for: no destination, no marker, and
\* no percentage or a percentage while no stage has begun (has)
NoUpdateLine(l, has) ==
  /\ l.dest = NoDest
  /\ ~l.merger
  /\ ~l.embed
  /\ (l.pct = NoPct \/ ~has)

NoUpdateStep ==
  (tracker = "live" /\ NoUpdateLine(lastLine', hasStage)) =>
    /\ ~ret'.ok
    /\ StageKept
    /\ totalStages' = totalStages
    /\ lastShown' = lastShown

\* C33: a line that is neither a destination, merge nor embed marker and
\* carries no percentage, or carries one while no stage has begun, returns
\* updated = false, leaves the whole tracker state unchanged, and the value
\* shown by the progress bar is not touched for it.
C33_NoUpdateLines == [][NoUpdateStep]_vars

\* an unrecognised line arrived after progress had been shown
C33_Witness ==
  /\ tracker = "live" /\ hasStage /\ lastLine = NoLine
  /\ lastShown = 420 /\ stageProgress = 420
  /\ ~ret.ok

\* C34: in a tracker, 0 <= stageIndex <= totalStages - 1; hasStage holds
\* exactly when seenDest is not empty; and when it holds stageIndex is the
\* smaller of |seenDest| - 1 and totalStages - 1.
C34_StageInvariant ==
  tracker = "live" =>
    /\ totalStages >= 1
    /\ 0 <= stageIndex /\ stageIndex <= totalStages - 1
    /\ hasStage <=> (seenDest # {})
    /\ hasStage =>
         stageIndex = IF Cardinality(seenDest) - 1 < totalStages - 1
                        THEN Cardinality(seenDest) - 1 ELSE totalStages - 1

\* three destinations were seen by a tracker of two stages
C34_Witness ==
  /\ tracker = "live" /\ totalStages = 2
  /\ Cardinality(seenDest) = 3 /\ stageIndex = 1 /\ hasStage


\* events[i] has a predecessor, and its phase is one of phs
After(i, phs) == i > 1 /\ events[i - 1].Phase \in phs

FailedDownload ==
  /\ pc = "idle"
  /\ calls > 0
  /\ preTarget = Absent
  /\ data = <<>>
  /\ result.st = "err"

\* the next ensure call after a failed one does not return the path at once
ProvisionsAgain ==
  (FailedDownload /\ calls' = calls + 1) => ~(pc' = "idle" /\ result' = Ok)

\* C36: when the target is absent and ensure on the download path returns an
\* error, the target is still absent on return, and the next ensure call goes
\* through provisioning again instead of returning the path.
C36_FailedEnsureRetryable ==
  /\ [](FailedDownload => target = Absent)
  /\ [][ProvisionsAgain]_vars

\* the installer failed after a verified download: nothing is at the target
C36_Witness ==
  /\ FailedDownload
  /\ dlReturn = "ok"
  /\ replaced = 1
  /\ installing = ExeNew
  /\ target = Absent /\ sibling = Absent


\* C37: with both read loops running on the shared tracker, the values are
\* applied to the progress bar in the order in which the update calls, one at
\* a time under the lock, produced them: the bar never goes from the result of
\* a later call to that of an earlier one.
C37_AppliedInOrder == [][shown' >= shown]_vars

\* the values a loop has applied to the progress bar
Applied(l) == {rets[l][i].v : i \in {j \in DOMAIN rets[l] : rets[l][j].ok}}

\* the completion step comes after both loops and sets 1.0
CompletionAfterLoops ==
  /\ main \in {"waited", "complete", "failed"} => \A l \in Loops : loop[l].pc = "done"
  /\ main = "complete" => progress = Full

\* a session that failed has not had 1.0 on its progress bar
NoFullOnError ==
  main = "failed" => (progress # Full /\ \A l \in Loops : Full \notin Applied(l))

\* C38: when the subprocess exits successfully, 1.0 and "Download complete" are
\* set only after both read loops have ended, so that no value of the tracker
\* is applied after them; when it exits with an error the session never sets
\* the progress value to 1.0.
C38_CompletionOrdering == CompletionAfterLoops /\ NoFullOnError


\* a session's goroutine is alive
Active(k) == app.sess[k] \in {"begin", "subs", "run", "scan"}

\* a session has called runYTDLP
InRun(k) == app.sess[k] \in {"run", "scan"} \/ app.trk[k] # 0

SetupDone ==
  /\ app.setup = "done"
  /\ app.toolsReady
  /\ app.preparedYTDLPPath
  /\ app.preparedFFmpegPath

\* C39: no session calls runYTDLP before the setup sequence has finished
\* successfully with both tool paths prepared; when the tool check fails, the
\* user declines the download of the tools or a tool cannot be provisioned,
\* toolsReady never becomes true, the Download button stays disabled and no
\* session starts; and while a session is in progress the button is disabled,
\* so that at most one session is active at a time, each with a tracker of
\* its own.
C39_SetupGating ==
  /\ \A k \in 1..MaxTaps : (Active(k) \/ InRun(k)) => SetupDone
  /\ app.toolsReady => app.setup \in {"enable", "done"}
  /\ app.setup = "failed" =>
       /\ ~app.toolsReady
       /\ ~app.btn
       /\ app.taps = 0
       /\ \A k \in 1..MaxTaps : app.sess[k] = "none"
  /\ Cardinality({k \in 1..MaxTaps : Active(k)}) <= 1
  /\ (\E k \in 1..MaxTaps : Active(k)) => ~app.btn
  /\ \A j, k \in 1..MaxTaps :
       (j # k /\ app.trk[j] # 0) => app.trk[j] # app.trk[k]

\* after a setup that provisioned both tools, a second session runs with the
\* second tracker while the button is disabled
C39_Witness ==
  /\ SetupDone
  /\ Len(app.missing) = 2
  /\ app.sess[1] = "ended" /\ app.trk[1] = 1
  /\ app.sess[2] = "scan" /\ app.trk[2] = 2
  /\ ~app.btn

====
